---- MODULE Spec2Model ----
(***************************************************************************)
(* Orbit mind mapper (src/script.js): the node graph of each canvas, the   *)
(* structural operations on it, the canvas collection and the snapshot     *)
(* history, as a state machine.                                            *)
(*                                                                         *)
(* Ids.  'node-<Date.now()>' is modelled by the clock reading itself, a    *)
(* positive integer; 'canvas-<Date.now()>' likewise, and the canvas id     *)
(* 'default' is 0.  Null (0) models null for linkingFromId.                *)
(*                                                                         *)
(* Node records carry id, parentIds and resolved, and where a              *)
(* specification is about them the color (SpecColor, SpecBranch) or the    *)
(* position x, y (SpecMove).  Canvas records carry id, title and nodes,    *)
(* and where a specification is about them the viewport pan and scale      *)
(* (SpecView) or lastModified (SpecSync).  The fields heading,             *)
(* description, marked and instructions are left out of the records: no    *)
(* branch of a modelled handler reads them.  A handler acts on a field     *)
(* that the records of its document carry.                                 *)
(*                                                                         *)
(* DOM.  createNodeElement(nodeData) closes over the node object it was    *)
(* given.  The field el of a node says that this object is the nodeData of *)
(* the DOM element carrying its id; detachedEls holds the nodeData of      *)
(* elements whose object is no longer part of state (after undo/redo       *)
(* replaced state by a deep copy, or after the object was removed without  *)
(* a render), reduced to what the handlers read of it.  JSON deep copies   *)
(* never carry el.                                                         *)
(*                                                                         *)
(* lastOp records the handler that ran last and its arguments; no handler  *)
(* reads it.  The op "RangeError" records that addChildNode ended with the *)
(* uncaught error of an exhausted call stack.                              *)
(*                                                                         *)
(* Specifications.  Spec: the node operations of one canvas with undo and  *)
(* redo.  SpecCanvas: roots, links and deletions over several canvases.    *)
(* SpecEdit: title edits among snapshot-pushing edits.  SpecHist: the      *)
(* history stack up to its cap.  SpecStored: deleteNode and cleanupNode on *)
(* every stored document of up to MaxStored nodes.  SpecLink: completeLink *)
(* with every pair of ids, and addChildNode, on the same documents.        *)
(* SpecMove: one call of moveSubtree on positioned documents.  SpecColor:  *)
(* addChildNode with undo and redo on colored documents.  SpecBranch:      *)
(* addChildNode on colored documents of up to MaxBranch nodes.  SpecView:  *)
(* the viewport gestures and the canvas handlers.  SpecSync: the sync      *)
(* button on documents with stamped canvases.  SpecRecolor: the color      *)
(* picker on colored documents.  SpecLayout: the overlap relaxation and    *)
(* its propagation on positioned documents.  SpecPlace: findSmartPosition  *)
(* on crowded documents.  SpecFrame: roots, links, deletions and resolve   *)
(* toggles over several canvases.                                          *)
(***************************************************************************)
EXTENDS Integers, Sequences, FiniteSets, TLC

VARIABLES state, history, historyIndex, linkingFromId, detachedEls, now, lastOp,
          viewport, file

vars == <<state, history, historyIndex, linkingFromId, detachedEls, now, lastOp,
          viewport, file>>

Null == 0

\* Bounds of the model: nodes in the document, canvases, clock readings,
\* snapshots a handler may start from; nodes and parents per node of a stored
\* document.
MaxNodes == 2
MaxCanvases == 2
MaxClock == 2
MaxSnapshots == 2
MaxStored == 3
MaxParents == 2
MaxColors == 2
MaxBranch == 4
MaxPan == 1
MaxScale == 110
MaxStamp == 2

\* history.length > 50 (program constant).
HistoryCap == 50

\* A node without a color (a root from the canvas dblclick has none), and
\* the colors addChildNode draws from its palette or the color picker gives.
NoColor == 0
Palette == 1..MaxColors

\* The viewport: let pan = { x: 0, y: 0 }; let scale = 1.  pan is an object:
\* o names the object when more than one holder (the variable pan, the field
\* pan of a canvas) refers to it, and is 0 for the object of one holder.
\* scale is held in hundredths.
NewPan == [x |-> 0, y |-> 0, o |-> 0]
DefaultScale == 100
DefaultView == [pan |-> NewPan, scale |-> DefaultScale]

\* The file behind fileHandle: no handle until the sync button connects one;
\* data is what JSON.parse gives of the file's text, { lastModified: 0 } for
\* a text that does not parse.
Unparsed == [lastModified |-> 0]
NoFile == [handle |-> FALSE, data |-> Unparsed]

\* The canvas record carries its viewport.
Viewed(c) == "pan" \in DOMAIN c

DefaultTitle == "Untitled Canvas"
Titles == {DefaultTitle, "Plan"}

----------------------------------------------------------------------------
\* Array helpers.

Min(S) == CHOOSE x \in S : \A y \in S : x <= y

Includes(seq, x) == \E i \in DOMAIN seq : seq[i] = x

ToSet(seq) == {seq[i] : i \in DOMAIN seq}

\* Array.prototype.findIndex on the id, 1-based; 0 when there is none.
FindIndex(nodes, id) ==
    LET S == {i \in DOMAIN nodes : nodes[i].id = id}
    IN  IF S = {} THEN 0 ELSE Min(S)

HasNode(nodes, id) == FindIndex(nodes, id) # 0

RemoveAt(seq, k) == [i \in 1..(Len(seq) - 1) |-> IF i < k THEN seq[i] ELSE seq[i + 1]]

----------------------------------------------------------------------------
\* Graph store accessors.

\* state.canvases.findIndex(c => c.id === state.currentCanvasId), or the first.
CurIdx(st) ==
    LET S == {i \in DOMAIN st.canvases : st.canvases[i].id = st.currentCanvasId}
    IN  IF S = {} THEN 1 ELSE Min(S)

getCurrentCanvas(st) == st.canvases[CurIdx(st)]

CurNodes(st) == getCurrentCanvas(st).nodes

SetCurNodes(st, ns) == [st EXCEPT !.canvases[CurIdx(st)].nodes = ns]

NodeIds(nodes) == {nodes[i].id : i \in DOMAIN nodes}

\* nodes.filter(n => n.parentIds.includes(id)), as indices.
ChildIdx(nodes, id) == {i \in DOMAIN nodes : Includes(nodes[i].parentIds, id)}

ChildIds(nodes, id) == {nodes[i].id : i \in ChildIdx(nodes, id)}

TotalNodes(st) ==
    LET RECURSIVE Sum(_)
        Sum(c) == IF c = 0 THEN 0 ELSE Len(st.canvases[c].nodes) + Sum(c - 1)
    IN  Sum(Len(st.canvases))

\* Ids reachable from the ids in S over one or more parent->child edges.
RECURSIVE ReachFrom(_, _, _)
ReachFrom(nodes, frontier, seen) ==
    LET next == UNION {ChildIds(nodes, f) : f \in frontier} \ seen
    IN  IF next = {} THEN seen ELSE ReachFrom(nodes, next, seen \cup next)

Descendants(nodes, id) == ReachFrom(nodes, {id}, {})

----------------------------------------------------------------------------
\* History manager.

\* JSON.parse(JSON.stringify(state)): a copy that shares no object with state,
\* so no copied node is the nodeData of a DOM element.
CopyNodes(nodes) == [i \in DOMAIN nodes |-> [nodes[i] EXCEPT !.el = FALSE]]

DeepCopy(st) ==
    [st EXCEPT !.canvases =
        [c \in DOMAIN st.canvases |->
            IF Viewed(st.canvases[c])
            THEN [st.canvases[c] EXCEPT !.nodes = CopyNodes(@), !.pan.o = 0]
            ELSE [st.canvases[c] EXCEPT !.nodes = CopyNodes(@)]]]

\* The stack grows without a cap.
pushUncapped(hist, idx, st) ==
    LET kept == IF idx < Len(hist) - 1 THEN SubSeq(hist, 1, idx + 1) ELSE hist
    IN  [history |-> Append(kept, DeepCopy(st)), historyIndex |-> idx + 1]

\* The snapshots after idx stay.
pushKeepingFuture(hist, idx, st) ==
    LET pushed == Append(hist, DeepCopy(st))
    IN  IF Len(pushed) > HistoryCap
        THEN [history |-> Tail(pushed), historyIndex |-> idx + 1 - 1]
        ELSE [history |-> pushed, historyIndex |-> idx + 1]

\* A push that stores the state object itself and no copy of it: the
\* snapshot the handler started from, pushed the same way, is that object
\* too and shows what the handler did to it.
pushByReference(hist, idx, st) ==
    LET kept == IF idx < Len(hist) - 1 THEN SubSeq(hist, 1, idx + 1) ELSE hist
    IN  [history |-> Append([kept EXCEPT ![idx + 1] = DeepCopy(st)], DeepCopy(st)),
         historyIndex |-> idx + 1]

\* pushHistory() with isUndoing false.  historyIndex is 0-based as in the
\* code: history[historyIndex] is hist[idx + 1] here.
pushHistory(hist, idx, st) ==
    LET kept == IF idx < Len(hist) - 1 THEN SubSeq(hist, 1, idx + 1) ELSE hist
        pushed == Append(kept, DeepCopy(st))
    IN  IF Len(pushed) > HistoryCap
        THEN [history |-> Tail(pushed), historyIndex |-> idx + 1 - 1]
        ELSE [history |-> pushed, historyIndex |-> idx + 1]

\* Two saveState() calls of one handler, on st1 and then on st2.
pushTwice(hist, idx, st1, st2) ==
    LET h == pushHistory(hist, idx, st1)
    IN  pushHistory(h.history, h.historyIndex, st2)

----------------------------------------------------------------------------
\* DOM node elements.

\* The places <<canvas index, node index>> of the node objects that are the
\* nodeData of a DOM element.
BoundAt(st) ==
    {pl \in UNION {{<<c, i>> : i \in DOMAIN st.canvases[c].nodes} :
                        c \in DOMAIN st.canvases} :
        st.canvases[pl[1]].nodes[pl[2]].el}

NodeAt(st, pl) == st.canvases[pl[1]].nodes[pl[2]]

\* The data-id values of the .node elements in the document.
ElIds(st, dt) == {NodeAt(st, pl).id : pl \in BoundAt(st)} \cup {d.id : d \in dt}

\* The node records of SpecColor carry the field color; those of the other
\* specifications leave it out.
Colored(n) == "color" \in DOMAIN n

\* What the handlers of an element read of the nodeData object n they close
\* over: n.id, n.resolved, whether n.parentIds is empty, and n.color.
View(n) ==
    LET v == [id |-> n.id, isRoot |-> Len(n.parentIds) = 0,
              resolved |-> n.resolved]
    IN  IF Colored(n) THEN v @@ [color |-> n.color] ELSE v

\* The nodeData of the element with data-id X.
ElData(st, dt, X) ==
    IF \E d \in dt : d.id = X
    THEN CHOOSE d \in dt : d.id = X
    ELSE View(NodeAt(st, CHOOSE pl \in BoundAt(st) : NodeAt(st, pl).id = X))

\* The nodeData objects of the elements in `places`, as they leave state.
Unbound(st, places) == {View(NodeAt(st, pl)) : pl \in places}

\* renderNodes(): every node of the current canvas without an element gets one
\* (querySelector finds the first element with the id, so of two nodes with
\* one id only the first gets an element); elements whose id is not in the
\* current canvas are removed.
renderNodes(st, dt) ==
    LET cur == CurIdx(st)
        ns  == st.canvases[cur].nodes
        ids == NodeIds(ns)
        had == ElIds(st, dt)
        Drawn(c) ==
            [i \in DOMAIN st.canvases[c].nodes |->
                LET n == st.canvases[c].nodes[i]
                IN  [n EXCEPT !.el =
                        IF n.id \notin ids THEN FALSE
                        ELSE IF n.el THEN TRUE
                        ELSE c = cur /\ n.id \notin had /\ i = FindIndex(ns, n.id)]]
    IN  [st |-> [st EXCEPT !.canvases =
                    [c \in DOMAIN st.canvases |->
                        [st.canvases[c] EXCEPT !.nodes = Drawn(c)]]],
         dt |-> {d \in dt : d.id \in ids}]

----------------------------------------------------------------------------
\* Lifecycle manager: the computations on the node array.

\* One forEach pass of findOrphans over currentNodes, from index i on:
\* <<nodesToDelete, changed>>.
RECURSIVE findOrphans(_, _, _, _)
findOrphans(nodes, i, del, changed) ==
    IF i > Len(nodes) THEN <<del, changed>>
    ELSE LET n == nodes[i]
             remainingParents == SelectSeq(n.parentIds, LAMBDA pId : pId \notin del)
         IN  IF n.id \in del
             THEN findOrphans(nodes, i + 1, del, changed)
             ELSE IF /\ \E k \in DOMAIN n.parentIds : n.parentIds[k] \in del
                     /\ Len(remainingParents) = 0
                     /\ Len(n.parentIds) > 0
                  THEN findOrphans(nodes, i + 1, del \cup {n.id}, TRUE)
                  ELSE findOrphans(nodes, i + 1, del, changed)

\* while (findOrphans()) { }
RECURSIVE nodesToDelete(_, _)
nodesToDelete(nodes, del) ==
    LET pass == findOrphans(nodes, 1, del, FALSE)
    IN  IF pass[2] THEN nodesToDelete(nodes, pass[1]) ELSE pass[1]

\* Survivors keep every parent id.
keepDeletedParents(nodes, del) == nodes

\* n.parentIds = n.parentIds.filter(pId => !nodesToDelete.has(pId)) on survivors.
dropDeletedParents(nodes, del) ==
    [i \in DOMAIN nodes |->
        [nodes[i] EXCEPT !.parentIds = SelectSeq(@, LAMBDA pId : pId \notin del)]]

\* The node array deleteNode(nodeId) leaves (nodeId is present).
deleteNodeNodes(nodes, nodeId) ==
    LET del == nodesToDelete(nodes, {nodeId})
    IN  dropDeletedParents(SelectSeq(nodes, LAMBDA n : n.id \notin del), del)

\* parents.forEach(p => { if (!child.parentIds.includes(p.id)) push(p.id) })
RECURSIVE pushParents(_, _, _)
pushParents(pids, parents, i) ==
    IF i > Len(parents) THEN pids
    ELSE pushParents(IF Includes(pids, parents[i].id) THEN pids
                     ELSE Append(pids, parents[i].id),
                     parents, i + 1)

\* A child only loses nodeId.
detachOnly(pids, nodeId, parents) == SelectSeq(pids, LAMBDA id : id # nodeId)

\* The parentIds cleanupNode gives a child of nodeId.
reconnect(pids, nodeId, parents) ==
    pushParents(SelectSeq(pids, LAMBDA id : id # nodeId), parents, 1)

\* The node array cleanupNode(nodeId) leaves (nodeId is present).
cleanupNodeNodes(nodes, nodeId) ==
    LET node == nodes[FindIndex(nodes, nodeId)]
        parents == SelectSeq(nodes, LAMBDA n : Includes(node.parentIds, n.id))
        relinked ==
            [i \in DOMAIN nodes |->
                IF Includes(nodes[i].parentIds, nodeId)
                THEN [nodes[i] EXCEPT !.parentIds = reconnect(@, nodeId, parents)]
                ELSE nodes[i]]
    IN  RemoveAt(relinked, FindIndex(relinked, nodeId))

\* updateChildren(rootId) of updateBranchColor never returns (the call stack
\* overflows and the handler ends with a RangeError) exactly when a node on a
\* cycle is reachable from rootId.
updateBranchColorOverflows(nodes, rootId) ==
    \E m \in Descendants(nodes, rootId) : m \in Descendants(nodes, m)

\* Date.now() read after the reading `now`: the same millisecond or a later one.
Readings == {t \in {now, now + 1} : 1 <= t}

----------------------------------------------------------------------------
\* The state after the initial load (empty localStorage): loadState();
\* pushHistory(); render().

InitialState ==
    [canvases |-> <<[id |-> 0, title |-> DefaultTitle, nodes |-> <<>>]>>,
     currentCanvasId |-> 0]

Op(name, a, b) == [op |-> name, a |-> a, b |-> b]

Init ==
    /\ state = InitialState
    /\ history = <<DeepCopy(InitialState)>>
    /\ historyIndex = 0
    /\ linkingFromId = Null
    /\ detachedEls = {}
    /\ now = 0
    /\ lastOp = Op("load", Null, Null)
    /\ viewport = DefaultView
    /\ file = NoFile

NewNode(id, parentIds) ==
    [id |-> id, parentIds |-> parentIds, resolved |-> FALSE, el |-> FALSE]

\* A handler's last steps: the history it leaves, then render().
FinishView(st, dt, h, link, op, vp) ==
    LET r == renderNodes(st, dt)
    IN  /\ state' = r.st
        /\ detachedEls' = r.dt
        /\ history' = h.history
        /\ historyIndex' = h.historyIndex
        /\ linkingFromId' = link
        /\ lastOp' = op
        /\ viewport' = vp
        /\ file' = file

Finish(st, dt, h, link, op) == FinishView(st, dt, h, link, op, viewport)

Same == [history |-> history, historyIndex |-> historyIndex]

\* A handler that returns (or throws) before it changes anything modelled.
NoEffect(op) ==
    /\ UNCHANGED <<state, history, historyIndex, linkingFromId, detachedEls, now,
                   viewport, file>>
    /\ lastOp' = op

\* canvas dblclick outside a node: a root node.
CreateRoot(t) ==
    LET st1 == SetCurNodes(state, Append(CurNodes(state), NewNode(t, <<>>)))
    IN  /\ t \in Readings
        /\ now' = t
        /\ Finish(st1, detachedEls, pushHistory(history, historyIndex, st1),
                  linkingFromId, Op("createRoot", Null, Null))

\* A recoloring that stops at the children of rootId.
updateBranchColorShallow(nodes, rootId, newColor) ==
    [i \in DOMAIN nodes |->
        IF /\ Colored(nodes[i])
           /\ \/ i = FindIndex(nodes, rootId)
              \/ Includes(nodes[i].parentIds, rootId)
        THEN [nodes[i] EXCEPT !.color = newColor]
        ELSE nodes[i]]

\* A recoloring that follows only the first parent of a node.
updateBranchColorFirstParent(nodes, rootId, newColor) ==
    LET reached == {rootId} \cup Descendants(nodes, rootId)
    IN  [i \in DOMAIN nodes |->
            IF /\ Colored(nodes[i])
               /\ \/ i = FindIndex(nodes, rootId)
                  \/ /\ nodes[i].parentIds # <<>>
                     /\ nodes[i].parentIds[1] \in reached
            THEN [nodes[i] EXCEPT !.color = newColor]
            ELSE nodes[i]]

\* The nodes updateBranchColor(rootId, newColor) leaves when its recursion
\* returns: the first node with the id rootId and every node that lists
\* rootId or a descendant of rootId among its parentIds carry newColor.
updateBranchColor(nodes, rootId, newColor) ==
    LET reached == {rootId} \cup Descendants(nodes, rootId)
    IN  [i \in DOMAIN nodes |->
            IF /\ Colored(nodes[i])
               /\ \/ i = FindIndex(nodes, rootId)
                  \/ \E r \in reached : Includes(nodes[i].parentIds, r)
            THEN [nodes[i] EXCEPT !.color = newColor]
            ELSE nodes[i]]

\* nodes.forEach(n => { if (n.parentIds.includes(parentId)) n.color = color })
colorChildren(nodes, parentId, color) ==
    [i \in DOMAIN nodes |->
        IF Colored(nodes[i]) /\ Includes(nodes[i].parentIds, parentId)
        THEN [nodes[i] EXCEPT !.color = color]
        ELSE nodes[i]]

\* parentNode.color = color, on the nodeData object of the element X: a node
\* of state, or an object that has left state.
colorElData(st, dt, X, color) ==
    IF \E d \in dt : d.id = X
    THEN LET d == CHOOSE e \in dt : e.id = X
         IN  [st |-> st, dt |-> (dt \ {d}) \cup {[d EXCEPT !.color = color]}]
    ELSE LET pl == CHOOSE q \in BoundAt(st) : NodeAt(st, q).id = X
         IN  [st |-> [st EXCEPT !.canvases[pl[1]].nodes[pl[2]].color = color],
              dt |-> dt]

\* The auto-coloring cases of addChildNode without the case of a root parent.
colorCaseNoRoot(parentNode, nodes) ==
    IF Cardinality(ChildIdx(nodes, parentNode.id)) >= 2 THEN "dense"
    ELSE IF parentNode.color = NoColor THEN "fresh"
    ELSE "inherit"

\* The auto-coloring case of addChildNode(parentNode).
colorCase(parentNode, nodes) ==
    IF parentNode.isRoot THEN "root"
    ELSE IF Cardinality(ChildIdx(nodes, parentNode.id)) >= 2 THEN "dense"
    ELSE IF parentNode.color = NoColor THEN "fresh"
    ELSE "inherit"

\* addChildBtn click on the element X: addChildNode(nodeData), with the color
\* c drawn from the palette.  When updateBranchColor overflows the stack, the
\* RangeError leaves the handler before Date.now() is read and before the
\* node is pushed.
AddChildColored(X, t, c) ==
    LET parentNode == ElData(state, detachedEls, X)
        nodes == CurNodes(state)
        case == colorCase(parentNode, nodes)
        dense == case = "dense"
        fresh == case = "fresh"
        nodeColor == IF case = "inherit" THEN parentNode.color ELSE c
        \* the document when the new node is built
        branch == renderNodes(SetCurNodes(state,
                                  updateBranchColor(nodes, parentNode.id, c)),
                              detachedEls)
        own == colorElData(state, detachedEls, X, c)
        doc == IF dense THEN branch
               ELSE IF fresh
               THEN [st |-> SetCurNodes(own.st,
                                colorChildren(CurNodes(own.st), parentNode.id, c)),
                     dt |-> own.dt]
               ELSE [st |-> state, dt |-> detachedEls]
        newNode == NewNode(t, <<parentNode.id>>) @@ [color |-> nodeColor]
        st1 == SetCurNodes(doc.st, Append(CurNodes(doc.st), newNode))
    IN  /\ c \in Palette
        /\ IF dense /\ updateBranchColorOverflows(nodes, parentNode.id)
           THEN NoEffect(Op("RangeError", X, Null))
           ELSE /\ t \in Readings
                /\ now' = t
                /\ Finish(st1, doc.dt,
                          IF dense
                          THEN pushTwice(history, historyIndex, doc.st, st1)
                          ELSE pushHistory(history, historyIndex, st1),
                          linkingFromId, Op("addChildNode", X, c))

\* addChildBtn click on the element X where the node records leave the color
\* out: what addChildNode does to ids, parentIds and the history.
AddChildPlain(X, t) ==
    LET parentNode == ElData(state, detachedEls, X)
        nodes == CurNodes(state)
        dense == ~parentNode.isRoot /\ Cardinality(ChildIdx(nodes, parentNode.id)) >= 2
        st1 == SetCurNodes(state, Append(nodes, NewNode(t, <<parentNode.id>>)))
        op == Op("addChildNode", X, Null)
    IN  IF dense /\ updateBranchColorOverflows(nodes, parentNode.id)
        THEN NoEffect(Op("RangeError", X, Null))
        ELSE /\ t \in Readings
             /\ now' = t
             /\ Finish(st1, detachedEls,
                       IF dense
                       THEN pushTwice(history, historyIndex, state, st1)
                       ELSE pushHistory(history, historyIndex, st1),
                       linkingFromId, op)

AddChild(X, t) ==
    /\ X \in ElIds(state, detachedEls)
    /\ IF Colored(ElData(state, detachedEls, X))
       THEN \E c \in Palette : AddChildColored(X, t, c)
       ELSE AddChildPlain(X, t)

\* colorInput change on the element X: updateBranchColor(nodeData.id, c).
Recolor(X, c) ==
    LET nodes == CurNodes(state)
        id == ElData(state, detachedEls, X).id
        st1 == SetCurNodes(state, updateBranchColor(nodes, id, c))
    IN  /\ X \in ElIds(state, detachedEls)
        /\ c \in Palette
        /\ IF updateBranchColorOverflows(nodes, id)
           THEN NoEffect(Op("RangeError", X, Null))
           ELSE /\ now' = now
                /\ Finish(st1, detachedEls,
                          pushHistory(history, historyIndex, st1),
                          linkingFromId, Op("updateBranchColor", X, c))

\* linkBtn click on the element X: startLinkMode(X).
StartLink(X) ==
    /\ X \in ElIds(state, detachedEls)
    /\ now' = now
    /\ Finish(state, detachedEls, Same,
              IF linkingFromId = X THEN Null ELSE X, Op("startLinkMode", X, Null))

\* A handler's end without a render().
Leave(st, dt, h, link, op) ==
    /\ state' = st
    /\ detachedEls' = dt
    /\ history' = h.history
    /\ historyIndex' = h.historyIndex
    /\ linkingFromId' = link
    /\ lastOp' = op
    /\ viewport' = viewport
    /\ file' = file

\* completeLink without its test for parentId === childId.
completeLinkSelf(parentId, childId, st, dt, link) ==
    LET nodes == CurNodes(st)
        k == FindIndex(nodes, childId)
        op == Op("completeLink", parentId, childId)
        st1 == SetCurNodes(st, [nodes EXCEPT ![k].parentIds = Append(@, parentId)])
    IN  /\ now' = now
        /\ IF k = 0
           THEN Leave(st, dt, Same, link, op)
           ELSE IF Includes(nodes[k].parentIds, parentId)
           THEN Finish(st, dt, Same, Null, op)
           ELSE Finish(st1, dt, pushHistory(history, historyIndex, st1), Null, op)

\* completeLink without its test for a parent that is already listed.
completeLinkUnchecked(parentId, childId, st, dt, link) ==
    LET nodes == CurNodes(st)
        k == FindIndex(nodes, childId)
        op == Op("completeLink", parentId, childId)
        st1 == SetCurNodes(st, [nodes EXCEPT ![k].parentIds = Append(@, parentId)])
    IN  /\ now' = now
        /\ IF k = 0 \/ parentId = childId
           THEN Leave(st, dt, Same, link, op)
           ELSE Finish(st1, dt, pushHistory(history, historyIndex, st1), Null, op)

\* completeLink(parentId, childId), called with the document as `st`, `dt`
\* and linkingFromId as `link`.
completeLink(parentId, childId, st, dt, link) ==
    LET nodes == CurNodes(st)
        k == FindIndex(nodes, childId)
        op == Op("completeLink", parentId, childId)
        st1 == SetCurNodes(st, [nodes EXCEPT ![k].parentIds = Append(@, parentId)])
    IN  /\ now' = now
        /\ IF k = 0 \/ parentId = childId
           THEN Leave(st, dt, Same, link, op)
           ELSE IF Includes(nodes[k].parentIds, parentId)
           THEN Finish(st, dt, Same, Null, op)
           ELSE Finish(st1, dt, pushHistory(history, historyIndex, st1), Null, op)

\* click on the element X while a link is in progress.
ClickNode(X) ==
    /\ X \in ElIds(state, detachedEls)
    /\ linkingFromId # Null
    /\ linkingFromId # X
    /\ completeLink(linkingFromId, X, state, detachedEls, linkingFromId)

\* The link handle of element X dragged onto element Y (upHandler):
\* linkingFromId = null; renderNodes(); completeLink(nodeData.id, targetId).
DragLink(X, Y) ==
    LET r == renderNodes(state, detachedEls)
    IN  /\ X \in ElIds(state, detachedEls)
        /\ Y \in ElIds(state, detachedEls)
        /\ linkingFromId = X
        /\ X # Y
        /\ completeLink(X, Y, r.st, r.dt, Null)

\* detachBtn click on the connection parentId -> childId.
detachNode(parentId, childId) ==
    LET nodes == CurNodes(state)
        k == FindIndex(nodes, childId)
        st1 == SetCurNodes(state,
                   [nodes EXCEPT ![k].parentIds =
                       SelectSeq(@, LAMBDA id : id # parentId)])
    IN  /\ HasNode(nodes, parentId)
        /\ \E i \in DOMAIN nodes :
               nodes[i].id = childId /\ Includes(nodes[i].parentIds, parentId)
        /\ now' = now
        /\ Finish(st1, detachedEls, pushHistory(history, historyIndex, st1),
                  linkingFromId, Op("detachNode", parentId, childId))

\* deleteButton click on the element X: deleteNode(X); saveState(); render();
\* autoLayout(false), which saves again unless the canvas is empty.
DeleteNode(X) ==
    LET nodes == CurNodes(state)
        cur == CurIdx(state)
        del == nodesToDelete(nodes, {X})
        gone == {pl \in BoundAt(state) : pl[1] = cur /\ nodes[pl[2]].id \in del}
        after == deleteNodeNodes(nodes, X)
        st1 == SetCurNodes(state, after)
        op == Op("deleteNode", X, Null)
    IN  /\ X \in ElIds(state, detachedEls)
        /\ IF ~HasNode(nodes, X)
           THEN NoEffect(op)
           ELSE /\ now' = now
                /\ Finish(st1, detachedEls \cup Unbound(state, gone),
                          IF Len(after) = 0
                          THEN pushHistory(history, historyIndex, st1)
                          ELSE pushTwice(history, historyIndex, st1, st1),
                          linkingFromId, op)

\* resolveBtn dblclick on the element X: nodeData.resolved flips; saveState().
ToggleResolve(X) ==
    LET op == Op("resolve", X, Null)
    IN  /\ X \in ElIds(state, detachedEls)
        /\ now' = now
        /\ IF \E d \in detachedEls : d.id = X
           THEN LET d == CHOOSE e \in detachedEls : e.id = X
                IN  Leave(state,
                          (detachedEls \ {d}) \cup {[d EXCEPT !.resolved = ~@]},
                          pushHistory(history, historyIndex, state),
                          linkingFromId, op)
           ELSE LET pl == CHOOSE q \in BoundAt(state) : NodeAt(state, q).id = X
                    st1 == [state EXCEPT
                               !.canvases[pl[1]].nodes[pl[2]].resolved = ~@]
                IN  Leave(st1, detachedEls,
                          pushHistory(history, historyIndex, st1),
                          linkingFromId, op)

\* resolveBtn click on the element X with nodeData.resolved, confirmed:
\* cleanupNode(X); autoLayout(false) saves and renders unless no node is left.
Cleanup(X) ==
    LET nodes == CurNodes(state)
        cur == CurIdx(state)
        k == FindIndex(nodes, X)
        after == cleanupNodeNodes(nodes, X)
        st1 == SetCurNodes(state, after)
        dt1 == detachedEls \cup
               Unbound(state, {pl \in BoundAt(state) : pl = <<cur, k>>})
        op == Op("cleanupNode", X, Null)
    IN  /\ X \in ElIds(state, detachedEls)
        /\ ElData(state, detachedEls, X).resolved
        /\ now' = now
        /\ IF k = 0
           THEN NoEffect(op)
           ELSE IF Len(after) = 0
           THEN Leave(st1, dt1, Same, linkingFromId, op)
           ELSE Finish(st1, dt1, pushHistory(history, historyIndex, st1),
                       linkingFromId, op)

\* clearBtn click, confirmed.
ClearCanvas ==
    LET cur == CurIdx(state)
        st1 == SetCurNodes(state, <<>>)
    IN  /\ Len(CurNodes(state)) # 0
        /\ now' = now
        /\ Finish(st1,
                  detachedEls \cup
                      Unbound(state, {pl \in BoundAt(state) : pl[1] = cur}),
                  pushHistory(history, historyIndex, st1),
                  linkingFromId, Op("clear", Null, Null))

\* repositionBtn click, confirmed: autoLayout() moves nodes, then saveState().
Reposition ==
    /\ Len(CurNodes(state)) # 0
    /\ now' = now
    /\ Finish(state, detachedEls, pushHistory(history, historyIndex, state),
              linkingFromId, Op("autoLayout", Null, Null))

\* canvas-title input: the title changes, saveState(true) pushes nothing.
EditTitle(title) ==
    /\ title \in Titles
    /\ title # getCurrentCanvas(state).title
    /\ now' = now
    /\ Leave([state EXCEPT !.canvases[CurIdx(state)].title = title],
             detachedEls, Same, linkingFromId, Op("title", Null, Null))

\* A restore that reads the snapshot at the index the handler started from.
restoreUnmoved(hist, idx) == DeepCopy(hist[historyIndex + 1])

\* The state undo() and redo() install: a deep copy of the snapshot at the
\* 0-based index idx.
restore(hist, idx) == DeepCopy(hist[idx + 1])

\* Every element's nodeData leaves state when state is replaced.
AllUnbound == detachedEls \cup Unbound(state, BoundAt(state))

\* undo() as it would be if pushHistory() lacked its isUndoing guard and the
\* restore were recorded as a history event.
undoRecorded ==
    /\ now' = now
    /\ IF historyIndex > 0
       THEN Finish(restore(history, historyIndex - 1), AllUnbound,
                   pushHistory(history, historyIndex - 1,
                               restore(history, historyIndex - 1)),
                   linkingFromId, Op("undo", Null, Null))
       ELSE NoEffect(Op("undo", Null, Null))

undo ==
    /\ now' = now
    /\ IF historyIndex > 0
       THEN Finish(restore(history, historyIndex - 1), AllUnbound,
                   [history |-> history, historyIndex |-> historyIndex - 1],
                   linkingFromId, Op("undo", Null, Null))
       ELSE NoEffect(Op("undo", Null, Null))

redo ==
    /\ now' = now
    /\ IF historyIndex < Len(history) - 1
       THEN Finish(restore(history, historyIndex + 1), AllUnbound,
                   [history |-> history, historyIndex |-> historyIndex + 1],
                   linkingFromId, Op("redo", Null, Null))
       ELSE NoEffect(Op("redo", Null, Null))

\* A canvas change that only pushed its snapshot on the history it found.
keepHistory(st) == pushHistory(history, historyIndex, st)

\* A reset that leaves the snapshot the handler started from in the stack.
resetKeepingCurrent(st) ==
    [history |-> <<history[historyIndex + 1], DeepCopy(st)>>, historyIndex |-> 1]

\* history = []; historyIndex = -1; pushHistory()
resetHistory(st) == [history |-> <<DeepCopy(st)>>, historyIndex |-> 0]

\* The pan objects that st and the viewport vp refer to, as a document: st
\* with the viewport held, and the two read back.
Doc(st, vp) == [st |-> st, vp |-> vp]

Holders(d) ==
    {<<c>> : c \in {c \in DOMAIN d.st.canvases : Viewed(d.st.canvases[c])}}
        \cup {<<>>}

PanOf(d, h) == IF h = <<>> THEN d.vp.pan ELSE d.st.canvases[h[1]].pan

\* An object of one holder gets o = 0 back, and the objects of several
\* holders are named 1, 2, ... in the order of their names.
Unshare(d) ==
    LET alone(h) == \A g \in Holders(d) \ {h} : PanOf(d, g).o # PanOf(d, h).o
        shared == {PanOf(d, h).o : h \in {h \in Holders(d) : ~alone(h)}} \ {0}
        name(pan) == IF pan.o \in shared
                     THEN [pan EXCEPT !.o = Cardinality({r \in shared : r <= pan.o})]
                     ELSE [pan EXCEPT !.o = 0]
    IN  [st |-> [d.st EXCEPT !.canvases =
                    [c \in DOMAIN d.st.canvases |->
                        IF Viewed(d.st.canvases[c])
                        THEN [d.st.canvases[c] EXCEPT !.pan = name(@)]
                        ELSE d.st.canvases[c]]],
         vp |-> [d.vp EXCEPT !.pan = name(@)]]

\* A name for an object that gets a second holder.
Ref(d, pan) ==
    IF pan.o # 0 THEN pan.o
    ELSE Min({k \in 1..(Len(d.st.canvases) + 1) :
                 \A h \in Holders(d) : PanOf(d, h).o # k})

\* canvas.pan = pan; canvas.scale = scale, on the canvas at index c.
storeView(d, c) ==
    IF ~Viewed(d.st.canvases[c]) THEN d
    ELSE LET shared == [d.vp.pan EXCEPT !.o = Ref(d, d.vp.pan)]
         IN  Unshare([st |-> [d.st EXCEPT !.canvases[c].pan = shared,
                                         !.canvases[c].scale = d.vp.scale],
                      vp |-> [d.vp EXCEPT !.pan = shared]])

\* pan = canvas.pan || { x: 0, y: 0 }; scale = canvas.scale || 1.  The scale
\* is never 0: zoom clamps it to [0.1, 5].
loadView(d, c) ==
    IF ~Viewed(d.st.canvases[c]) THEN Doc(d.st, DefaultView)
    ELSE LET shared == [d.st.canvases[c].pan EXCEPT
                            !.o = Ref(d, d.st.canvases[c].pan)]
         IN  Unshare([st |-> [d.st EXCEPT !.canvases[c].pan = shared],
                      vp |-> [pan |-> shared, scale |-> d.st.canvases[c].scale]])

\* pan.x = x; pan.y = y: every holder of the object sees it.
setPan(d, x, y) ==
    LET moved(pan) == [pan EXCEPT !.x = x, !.y = y]
    IN  [st |-> [d.st EXCEPT !.canvases =
                    [c \in DOMAIN d.st.canvases |->
                        IF /\ Viewed(d.st.canvases[c])
                           /\ d.vp.pan.o # 0
                           /\ d.st.canvases[c].pan.o = d.vp.pan.o
                        THEN [d.st.canvases[c] EXCEPT !.pan = moved(@)]
                        ELSE d.st.canvases[c]]],
         vp |-> [d.vp EXCEPT !.pan = moved(@)]]

\* saveState(true) at the end of a canvas handler: the viewport goes to
\* getCurrentCanvas().
saveView(d) == storeView(d, CurIdx(d.st))

\* prev-canvas / next-canvas click.
switchCanvas(direction) ==
    LET n == Len(state.canvases)
        currentIndex == CurIdx(state) - 1
        newIndex == IF direction = "next"
                    THEN (currentIndex + 1) % n
                    ELSE (currentIndex - 1 + n) % n
        out == storeView(Doc(state, viewport), currentIndex + 1)
        st1 == [out.st EXCEPT !.currentCanvasId = state.canvases[newIndex + 1].id]
        loaded == loadView(Doc(st1, out.vp), newIndex + 1)
        saved == saveView(loaded)
    IN  /\ direction \in {"next", "prev"}
        /\ now' = now
        /\ FinishView(saved.st, detachedEls, resetHistory(loaded.st), linkingFromId,
                      Op("switchCanvas", Null, Null), saved.vp)

\* The canvas addCanvas builds; its viewport is kept where the document
\* keeps viewports.
NewCanvas(t) ==
    LET c == [id |-> t, title |-> DefaultTitle, nodes |-> <<>>]
    IN  IF Viewed(state.canvases[1])
        THEN c @@ [pan |-> NewPan, scale |-> DefaultScale]
        ELSE c

\* add-canvas click.
addCanvas(t) ==
    LET st1 == [canvases |-> Append(state.canvases, NewCanvas(t)),
                currentCanvasId |-> t]
        loaded == Unshare(Doc(st1, DefaultView))
        saved == saveView(loaded)
    IN  /\ t \in Readings
        /\ now' = t
        /\ FinishView(saved.st, detachedEls, resetHistory(loaded.st), linkingFromId,
                      Op("addCanvas", Null, Null), saved.vp)

\* deleteCanvas without its guard on the last canvas: the splice empties the
\* collection and the read of the next canvas's id fails.
deleteCanvasUnguarded ==
    LET currentIndex == CurIdx(state) - 1
        rest == RemoveAt(state.canvases, currentIndex + 1)
        newIndex == IF currentIndex - 1 > 0 THEN currentIndex - 1 ELSE 0
        st1 == [canvases |-> rest, currentCanvasId |-> rest[newIndex + 1].id]
        gone == {pl \in BoundAt(state) : pl[1] = currentIndex + 1}
    IN  /\ now' = now
        /\ IF Len(state.canvases) <= 1
           THEN Leave([state EXCEPT !.canvases = rest],
                      detachedEls \cup Unbound(state, gone), Same,
                      linkingFromId, Op("deleteCanvas", Null, Null))
           ELSE Finish(st1, detachedEls \cup Unbound(state, gone),
                       resetHistory(st1), linkingFromId,
                       Op("deleteCanvas", Null, Null))

\* delete-canvas dblclick; the confirm() is accepted.
deleteCanvas ==
    LET currentIndex == CurIdx(state) - 1
        rest == RemoveAt(state.canvases, currentIndex + 1)
        newIndex == IF currentIndex - 1 > 0 THEN currentIndex - 1 ELSE 0
        st1 == [canvases |-> rest, currentCanvasId |-> rest[newIndex + 1].id]
        gone == {pl \in BoundAt(state) : pl[1] = currentIndex + 1}
        loaded == loadView(Unshare(Doc(st1, viewport)), newIndex + 1)
        saved == saveView(loaded)
    IN  IF Len(state.canvases) <= 1
        THEN NoEffect(Op("deleteCanvas", Null, Null))
        ELSE /\ now' = now
             /\ FinishView(saved.st, detachedEls \cup Unbound(state, gone),
                           resetHistory(loaded.st), linkingFromId,
                           Op("deleteCanvas", Null, Null), saved.vp)

----------------------------------------------------------------------------
\* The bounds on the handlers' inputs.

Ids == 1..MaxClock

\* Room for the snapshots of one more handler.
Room == historyIndex + 1 < MaxSnapshots

MayCreate == TotalNodes(state) < MaxNodes

\* The node operations of one canvas, with undo and redo.  switchCanvas with
\* a single canvas selects the same canvas again and resets the history.
Next ==
    \/ Room /\ MayCreate /\ \E t \in Ids : CreateRoot(t)
    \/ Room /\ MayCreate /\ \E X \in Ids, t \in Ids : AddChild(X, t)
    \/ \E X \in Ids : StartLink(X)
    \/ Room /\ \E X \in Ids : ClickNode(X)
    \/ Room /\ \E X \in Ids, Y \in Ids : DragLink(X, Y)
    \/ Room /\ \E p \in Ids, c \in Ids : detachNode(p, c)
    \/ Room /\ \E X \in Ids : DeleteNode(X)
    \/ Room /\ \E X \in Ids : ToggleResolve(X)
    \/ Room /\ \E X \in Ids : Cleanup(X)
    \/ Room /\ ClearCanvas
    \/ Room /\ Reposition
    \/ undo
    \/ redo
    \/ \E direction \in {"next", "prev"} : switchCanvas(direction)

Spec == Init /\ [][Next]_vars

----------------------------------------------------------------------------
\* Edits that push no snapshot, with undo and redo.

NextEdit ==
    \/ Room /\ MayCreate /\ \E t \in Ids : CreateRoot(t)
    \/ Room /\ MayCreate /\ \E X \in Ids, t \in Ids : AddChild(X, t)
    \/ Room /\ \E X \in Ids : ToggleResolve(X)
    \/ Room /\ Reposition
    \/ Room /\ \E X \in Ids : DeleteNode(X)
    \/ \E title \in Titles : EditTitle(title)
    \/ undo
    \/ redo
    \/ \E direction \in {"next", "prev"} : switchCanvas(direction)

SpecEdit == Init /\ [][NextEdit]_vars

----------------------------------------------------------------------------
\* Several canvases: roots, links and deletions while canvases are added,
\* switched and deleted.

NextCanvas ==
    \/ Room /\ MayCreate /\ \E t \in Ids : CreateRoot(t)
    \/ \E X \in Ids : StartLink(X)
    \/ Room /\ \E X \in Ids : ClickNode(X)
    \/ Room /\ \E X \in Ids : DeleteNode(X)
    \/ undo
    \/ redo
    \/ \E direction \in {"next", "prev"} : switchCanvas(direction)
    \/ Len(state.canvases) < MaxCanvases /\ \E t \in Ids : addCanvas(t)
    \/ deleteCanvas

SpecCanvas == Init /\ [][NextCanvas]_vars

----------------------------------------------------------------------------
\* Roots, links, deletions and resolve toggles over several canvases.

NextFrame ==
    \/ NextCanvas
    \/ Room /\ \E X \in Ids : ToggleResolve(X)

SpecFrame == Init /\ [][NextFrame]_vars

----------------------------------------------------------------------------
\* The history stack up to its cap: one root, repeated layouts, undo and redo.

NextHist ==
    \/ Len(CurNodes(state)) = 0 /\ \E t \in Ids : CreateRoot(t)
    \/ Reposition
    \/ undo
    \/ redo

SpecHist == Init /\ [][NextHist]_vars

----------------------------------------------------------------------------
\* deleteNode and cleanupNode on a stored document: loadState() finds a saved
\* document in localStorage.  The documents are the graphs that create-root,
\* link and detach build (any edges between distinct nodes, in any order), and
\* those that completeLink after a deletion and cleanupNode leave (a parent id
\* of no node, a node's own id): nodes 1..n in creation order, each with up to
\* MaxParents distinct parent ids, every node resolved.  Ids are pairwise
\* distinct here; nodes that share an id arise in Spec.

StoredIds == 1..(MaxStored + 1)

ParentLists ==
    {p \in UNION {[1..k -> StoredIds] : k \in 0..MaxParents} :
        \A i \in DOMAIN p, j \in DOMAIN p : i # j => p[i] # p[j]}

StoredState(n, f) ==
    [canvases |->
        <<[id |-> 0, title |-> DefaultTitle,
           nodes |-> [i \in 1..n |->
                        [id |-> i, parentIds |-> f[i], resolved |-> TRUE,
                         el |-> FALSE]]]>>,
     currentCanvasId |-> 0]

InitStored ==
    \E n \in 1..MaxStored : \E f \in [1..n -> ParentLists] :
        /\ state = renderNodes(StoredState(n, f), {}).st
        /\ history = <<StoredState(n, f)>>
        /\ historyIndex = 0
        /\ linkingFromId = Null
        /\ detachedEls = {}
        /\ now = MaxStored + 1
        /\ lastOp = Op("load", Null, Null)
        /\ viewport = DefaultView
        /\ file = NoFile

NextStored ==
    \/ \E X \in StoredIds : DeleteNode(X)
    \/ \E X \in StoredIds : Cleanup(X)

SpecStored == InitStored /\ [][NextStored]_vars

----------------------------------------------------------------------------
\* completeLink and addChildNode applied to a stored document: completeLink
\* with every pair of ids (equal ids, ids of no node, a parent that is
\* already listed, a descendant as the parent), then addChildNode on any
\* element, whose new node takes the clock's reading.

NextLink ==
    \/ Room /\ \E p \in StoredIds, c \in StoredIds :
                   completeLink(p, c, state, detachedEls, linkingFromId)
    \/ TotalNodes(state) <= MaxStored /\
           \E X \in StoredIds, t \in StoredIds : AddChild(X, t)

SpecLink == InitStored /\ [][NextLink]_vars

----------------------------------------------------------------------------
\* moveSubtree(nodeId, dx, dy) on a canvas whose nodes carry their positions.
\* The canvases are the graphs of up to MaxStored nodes in creation order:
\* the ids are clock readings, so they never decrease along the array and
\* two nodes created at the same reading share one.

RECURSIVE moveSubtree(_, _, _, _, _)
RECURSIVE moveChildren(_, _, _, _, _, _)

\* children.forEach(child => moveSubtree(child.id, dx, dy, visited))
moveChildren(nodes, children, i, dx, dy, visited) ==
    IF i > Len(children) THEN [nodes |-> nodes, visited |-> visited]
    ELSE LET r == moveSubtree(nodes, children[i], dx, dy, visited)
         IN  moveChildren(r.nodes, children, i + 1, dx, dy, r.visited)

\* The nodes and the visited set one call leaves.
moveSubtree(nodes, nodeId, dx, dy, visited) ==
    IF nodeId \in visited THEN [nodes |-> nodes, visited |-> visited]
    ELSE LET k == FindIndex(nodes, nodeId)
             moved == [nodes EXCEPT ![k].x = @ + dx, ![k].y = @ + dy]
             hit == SelectSeq(nodes, LAMBDA c : Includes(c.parentIds, nodeId))
             children == [i \in DOMAIN hit |-> hit[i].id]
         IN  IF k = 0
             THEN [nodes |-> nodes, visited |-> visited \cup {nodeId}]
             ELSE moveChildren(moved, children, 1, dx, dy,
                               visited \cup {nodeId})

Deltas == {<<1, 0>>, <<0, 1>>, <<-1, 2>>}

MoveIdLists ==
    {f \in UNION {[1..n -> 1..MaxStored] : n \in 1..MaxStored} :
        /\ f[1] = 1
        /\ \A i \in DOMAIN f : i > 1 => f[i] \in {f[i - 1], f[i - 1] + 1}}

MoveParentLists == {p \in ParentLists : \A i \in DOMAIN p : p[i] <= MaxStored}

MoveState(ids, f) ==
    [canvases |->
        <<[id |-> 0, title |-> DefaultTitle,
           nodes |-> [i \in DOMAIN ids |->
                        [id |-> ids[i], parentIds |-> f[i], resolved |-> FALSE,
                         el |-> TRUE, x |-> 10 * i, y |-> 0]]]>>,
     currentCanvasId |-> 0]

InitMove ==
    \E ids \in MoveIdLists : \E f \in [DOMAIN ids -> MoveParentLists] :
        /\ state = MoveState(ids, f)
        /\ history = <<DeepCopy(MoveState(ids, f))>>
        /\ historyIndex = 0
        /\ linkingFromId = Null
        /\ detachedEls = {}
        /\ now = MaxStored
        /\ lastOp = Op("load", Null, Null)
        /\ viewport = DefaultView
        /\ file = NoFile

\* One call of moveSubtree from resolveOverlaps or repositionSharedNode.
CallMoveSubtree(nodeId, d) ==
    /\ lastOp.op = "load"
    /\ state' = SetCurNodes(state,
                    moveSubtree(CurNodes(state), nodeId, d[1], d[2], {}).nodes)
    /\ lastOp' = Op("moveSubtree", nodeId, d)
    /\ UNCHANGED <<history, historyIndex, linkingFromId, detachedEls, now,
                   viewport, file>>

NextMove == \E nodeId \in StoredIds, d \in Deltas : CallMoveSubtree(nodeId, d)

SpecMove == InitMove /\ [][NextMove]_vars

----------------------------------------------------------------------------
\* Layout relaxation on the positioned documents: resolveOverlaps and the
\* propagation up the ancestry chain that addChildNode and completeLink end
\* with.  The distances between the nodes decide which of them collide; here
\* every node that resolveOverlaps compares with the moved node collides with
\* it in the first `rounds` passes of a call and none does afterwards, and a
\* collision pushes the two subtrees apart by d.

\* const maxIterations = 5; while (current && safetyCounter < 20)
maxIterations == 5
SafetyLimit == 20

MaxRounds == 6

\* The nodes a pass compares with the moved node: not the node itself and
\* none of getDescendants(movedNodeId).
Others(nodes, movedNodeId) ==
    {i \in DOMAIN nodes :
        /\ nodes[i].id # movedNodeId
        /\ nodes[i].id \notin Descendants(nodes, movedNodeId)}

\* nodes.forEach(other => ...) of a pass in which the others collide, from
\* the node at index i on.
RECURSIVE relaxPass(_, _, _, _)
relaxPass(nodes, movedNodeId, i, d) ==
    IF i > Len(nodes) THEN nodes
    ELSE IF i \notin Others(nodes, movedNodeId)
         THEN relaxPass(nodes, movedNodeId, i + 1, d)
         ELSE LET away == moveSubtree(nodes, movedNodeId, d[1], d[2], {}).nodes
                  back == moveSubtree(away, nodes[i].id, -d[1], -d[2], {}).nodes
              IN  relaxPass(back, movedNodeId, i + 1, d)

\* A relaxation loop without the test of iterations against maxIterations.
RECURSIVE relaxUncapped(_, _, _, _, _, _)
relaxUncapped(nodes, movedNodeId, iterations, passes, rounds, d) ==
    IF passes < rounds /\ Others(nodes, movedNodeId) # {}
    THEN relaxUncapped(relaxPass(nodes, movedNodeId, 1, d), movedNodeId,
                       iterations + 1, passes + 1, rounds, d)
    ELSE [nodes |-> nodes, passes |-> passes + 1]

\* while (iterations < maxIterations) { ...; if (!moved) break; iterations++ }
\* passes counts the executions of the loop body.
RECURSIVE relax(_, _, _, _, _, _)
relax(nodes, movedNodeId, iterations, passes, rounds, d) ==
    IF iterations < maxIterations
    THEN IF passes < rounds /\ Others(nodes, movedNodeId) # {}
         THEN relax(relaxPass(nodes, movedNodeId, 1, d), movedNodeId,
                    iterations + 1, passes + 1, rounds, d)
         ELSE [nodes |-> nodes, passes |-> passes + 1]
    ELSE [nodes |-> nodes, passes |-> passes]

resolveOverlaps(nodes, movedNodeId, rounds, d) ==
    IF ~HasNode(nodes, movedNodeId) THEN [nodes |-> nodes, passes |-> 0]
    ELSE relax(nodes, movedNodeId, 0, 0, rounds, d)

\* while (current && safetyCounter < 20) { resolveOverlaps(current.id); ... }
\* current is an index of nodes, 0 for null and undefined; calls lists the
\* node of each resolveOverlaps call and the passes the call made.
RECURSIVE propagate(_, _, _, _, _, _)
propagate(nodes, current, safetyCounter, rounds, d, calls) ==
    IF current # 0 /\ safetyCounter < SafetyLimit
    THEN LET r == resolveOverlaps(nodes, nodes[current].id, rounds, d)
             parentIds == r.nodes[current].parentIds
             next == IF parentIds # <<>>
                     THEN FindIndex(r.nodes, parentIds[1]) ELSE 0
         IN  propagate(r.nodes, next, safetyCounter + 1, rounds, d,
                       Append(calls, [node |-> current, passes |-> r.passes]))
    ELSE [nodes |-> nodes, calls |-> calls]

\* The end of completeLink(parentId, ...) and of addChildNode on the element
\* of parentId: let current = nodes.find(n => n.id === parentId); ...
Propagate(parentId, rounds, d) ==
    LET r == propagate(CurNodes(state), FindIndex(CurNodes(state), parentId),
                       0, rounds, d, <<>>)
    IN  /\ lastOp.op = "load"
        /\ state' = SetCurNodes(state, r.nodes)
        /\ lastOp' = Op("propagate", parentId, r.calls)
        /\ UNCHANGED <<history, historyIndex, linkingFromId, detachedEls, now,
                       viewport, file>>

\* No collision, one colliding pass, and more colliding passes than a call
\* makes; one push.
NextLayout ==
    \E parentId \in StoredIds, rounds \in {0, 1, MaxRounds} :
        Propagate(parentId, rounds, <<-1, 2>>)

SpecLayout == InitMove /\ [][NextLayout]_vars

----------------------------------------------------------------------------
\* findSmartPosition on crowded documents.  Node positions are whole pixels;
\* a candidate and the returned position are in thousandths of a pixel, the
\* precision of the cosine table.  Angles are counted in steps of Math.PI / 8
\* (sixteenths of the circle).

nodeWidth == 600
nodeHeight == 200
minDistance == 650
maxSteps == 200
RadiusStep == 100
FallbackOffset == 50
Milli == 1000

MaxCrowd == 44

\* 1000 * Math.cos(k * Math.PI / 8), rounded, for k = 0 .. 15.
CosTable ==
    <<1000, 924, 707, 383, 0, -383, -707, -924,
      -1000, -924, -707, -383, 0, 383, 707, 924>>

cos(k) == CosTable[(k % 16) + 1]

sin(k) == cos(k - 4)

\* Math.atan2(dy, dx) for a direction along an axis or a diagonal, the
\* directions in which the documents below place a grandparent.
atan2(dy, dx) ==
    CASE dy = 0 /\ dx >= 0 -> 0
      [] dy > 0 /\ dx > 0 -> 2
      [] dy > 0 /\ dx = 0 -> 4
      [] dy > 0 /\ dx < 0 -> 6
      [] dy = 0 /\ dx < 0 -> 8
      [] dy < 0 /\ dx < 0 -> -6
      [] dy < 0 /\ dx = 0 -> -4
      [] dy < 0 /\ dx > 0 -> -2

\* A collision test that compares the horizontal extent only.
collidesHorizontally(candidateX, candidateY, allNodes) ==
    \E i \in DOMAIN allNodes :
        /\ candidateX < (allNodes[i].x + nodeWidth) * Milli
        /\ candidateX + nodeWidth * Milli > allNodes[i].x * Milli

\* for (const node of allNodes) { if (...) { collision = true; break; } }
collides(candidateX, candidateY, allNodes) ==
    \E i \in DOMAIN allNodes :
        /\ candidateX < (allNodes[i].x + nodeWidth) * Milli
        /\ candidateX + nodeWidth * Milli > allNodes[i].x * Milli
        /\ candidateY < (allNodes[i].y + nodeHeight) * Milli
        /\ candidateY + nodeHeight * Milli > allNodes[i].y * Milli

\* One evaluation of while (step < maxSteps) { ... } in the loop state s:
\* radius, step, the position returned if the body has returned one
\* (found), and tested, the candidates compared with the nodes so far, each
\* with its radius.  A loop that has ended stays as it is.
searchStep(parent, allNodes, baseAngle, s) ==
    IF s.found \/ ~(s.step < maxSteps) THEN s
    ELSE LET sign == IF s.step % 2 = 0 THEN 1 ELSE -1
             multiplier == (s.step + 1) \div 2
             currentAngle == baseAngle + sign * multiplier
             candidateX == parent.x * Milli + cos(currentAngle) * s.radius
             candidateY == parent.y * Milli + sin(currentAngle) * s.radius
             seen == Append(s.tested, [x |-> candidateX, y |-> candidateY,
                                       radius |-> s.radius])
             next == s.step + 1
         IN  IF ~collides(candidateX, candidateY, allNodes)
             THEN [s EXCEPT !.found = TRUE, !.x = candidateX, !.y = candidateY,
                            !.tested = seen]
             ELSE [s EXCEPT !.step = next, !.tested = seen,
                            !.radius = IF next > 16 /\ next % 16 = 0
                                       THEN s.radius + RadiusStep
                                       ELSE s.radius]

\* n evaluations of the loop in a row.
RECURSIVE searchSteps(_, _, _, _, _)
searchSteps(parent, allNodes, baseAngle, s, n) ==
    IF n = 0 THEN s
    ELSE IF n = 1 THEN searchStep(parent, allNodes, baseAngle, s)
    ELSE LET half == searchSteps(parent, allNodes, baseAngle, s, n \div 2)
         IN  IF half.found THEN half
             ELSE searchSteps(parent, allNodes, baseAngle, half, n - n \div 2)

\* The loop from step 0 until it ends, and the fallback after it.
search(parent, allNodes, baseAngle) ==
    LET s == searchSteps(parent, allNodes, baseAngle,
                         [radius |-> minDistance, step |-> 0, found |-> FALSE,
                          x |-> 0, y |-> 0, tested |-> <<>>],
                         maxSteps + 1)
    IN  IF s.found THEN [x |-> s.x, y |-> s.y, tested |-> s.tested]
        ELSE [x |-> (parent.x + FallbackOffset) * Milli,
              y |-> (parent.y + FallbackOffset) * Milli,
              tested |-> s.tested]

findSmartPosition(parent, allNodes) ==
    LET grandParent == IF parent.parentIds = <<>> THEN 0
                       ELSE FindIndex(allNodes, parent.parentIds[1])
        baseAngle == IF grandParent = 0 THEN 0
                     ELSE atan2(parent.y - allNodes[grandParent].y,
                                parent.x - allNodes[grandParent].x)
    IN  search(parent, allNodes, baseAngle)

\* The documents: node 1, a node 2 next to it along an axis or a diagonal,
\* its first parent or not, and nodes of a grid around node 1 whose boxes
\* cover every candidate of node 1 when all of the grid is there.
Positioned(id, parentIds, x, y) ==
    [id |-> id, parentIds |-> parentIds, resolved |-> FALSE, el |-> TRUE,
     x |-> x, y |-> y]

CrowdAt(i) ==
    [x |-> 300 - 1500 + 1000 * ((i - 1) % 4),
     y |-> 200 - 1750 + 350 * ((i - 1) \div 4)]

Crowd(n, hole) ==
    LET kept == SelectSeq([i \in 1..n |-> i], LAMBDA i : i # hole)
    IN  [k \in DOMAIN kept |->
            Positioned(k + 2, <<>>, CrowdAt(kept[k]).x, CrowdAt(kept[k]).y)]

PlaceState(d, linked, n, hole) ==
    [canvases |->
        <<[id |-> 0, title |-> DefaultTitle,
           nodes |-> <<Positioned(1, IF linked THEN <<2>> ELSE <<>>, 300, 200),
                       Positioned(2, <<>>, 300 + 700 * d[1], 200 + 700 * d[2])>>
                     \o Crowd(n, hole)]>>,
     currentCanvasId |-> 0]

InitPlace ==
    \E d \in ({-1, 0, 1} \X {-1, 0, 1}) \ {<<0, 0>>}, linked \in BOOLEAN,
       n \in 0..MaxCrowd :
    \E hole \in IF n = MaxCrowd THEN 0..n ELSE {0} :
        /\ state = PlaceState(d, linked, n, hole)
        /\ history = <<DeepCopy(PlaceState(d, linked, n, hole))>>
        /\ historyIndex = 0
        /\ linkingFromId = Null
        /\ detachedEls = {}
        /\ now = MaxCrowd + 2
        /\ lastOp = Op("load", Null, Null)
        /\ viewport = DefaultView
        /\ file = NoFile

\* const { x, y } = findSmartPosition(parentNode, nodes) of addChildNode on
\* the element of parentId.
CallFindSmartPosition(parentId) ==
    /\ lastOp.op = "load"
    /\ HasNode(CurNodes(state), parentId)
    /\ NoEffect(Op("findSmartPosition", parentId,
                   findSmartPosition(
                       CurNodes(state)[FindIndex(CurNodes(state), parentId)],
                       CurNodes(state))))

NextPlace == \E parentId \in StoredIds : CallFindSmartPosition(parentId)

SpecPlace == InitPlace /\ [][NextPlace]_vars

----------------------------------------------------------------------------
\* The colors of a stored document.  Its nodes carry the field color: none, or
\* a color of the palette.  addChildNode and the color picker act on the
\* elements of the loaded document, and on the elements undo and redo leave
\* with the nodeData of a replaced state.

ColorParentLists == {p \in ParentLists : Len(p) <= 1}

\* The clock reading of the load: later than the creation of every node the
\* document holds or names.
ColorClock == MaxStored + 2

ColorState(n, f, col) ==
    [canvases |->
        <<[id |-> 0, title |-> DefaultTitle,
           nodes |-> [i \in 1..n |->
                        [id |-> i, parentIds |-> f[i], resolved |-> FALSE,
                         el |-> FALSE, color |-> col[i]]]]>>,
     currentCanvasId |-> 0]

\* The load of a document of up to N nodes at the clock reading `clock`.
LoadColored(N, lists, clock) ==
    \E n \in 1..N :
        \E f \in [1..n -> lists], col \in [1..n -> {NoColor, 1}] :
            /\ state = renderNodes(ColorState(n, f, col), {}).st
            /\ history = <<ColorState(n, f, col)>>
            /\ historyIndex = 0
            /\ linkingFromId = Null
            /\ detachedEls = {}
            /\ now = clock
            /\ lastOp = Op("load", Null, Null)
            /\ viewport = DefaultView
            /\ file = NoFile

InitColor == LoadColored(MaxStored, ColorParentLists, ColorClock)

\* A handler starts from the first snapshot; on a canvas of fewer than
\* MaxStored nodes addChildNode may also follow addChildNode.
AddAgain == lastOp.op = "addChildNode" /\ TotalNodes(state) < MaxStored

NextColor ==
    \/ (Room \/ AddAgain) /\ \E X \in StoredIds : AddChild(X, ColorClock)
    \/ undo
    \/ redo

SpecColor == InitColor /\ [][NextColor]_vars

\* addChildNode on the loaded documents of up to MaxBranch nodes, which hold
\* branches two levels deep below a parent that has a parent of its own.

BranchIds == 1..(MaxBranch + 1)

BranchParentLists == {<<>>} \cup {<<i>> : i \in BranchIds}

BranchClock == MaxBranch + 2

InitBranch == LoadColored(MaxBranch, BranchParentLists, BranchClock)

NextBranch == Room /\ \E X \in BranchIds : AddChild(X, BranchClock)

SpecBranch == InitBranch /\ [][NextBranch]_vars

----------------------------------------------------------------------------
\* The color picker on colored documents whose nodes have up to MaxParents
\* parents: a node shared by two branches, a parent id of no node.

InitRecolor == LoadColored(MaxStored, ParentLists, ColorClock)

NextRecolor == Room /\ \E X \in StoredIds, c \in Palette : Recolor(X, c)

SpecRecolor == InitRecolor /\ [][NextRecolor]_vars

----------------------------------------------------------------------------
\* The viewports of the canvases: pointer and keyboard gestures on the
\* viewport between canvas switches, additions and deletions.  The canvas
\* records carry pan and scale, as every document the program writes does.

PanValues == (0..MaxPan) \X (0..MaxPan)

ViewState ==
    [canvases |-> <<[id |-> 0, title |-> DefaultTitle, nodes |-> <<>>,
                     pan |-> NewPan, scale |-> DefaultScale]>>,
     currentCanvasId |-> 0]

InitView ==
    /\ state = ViewState
    /\ history = <<DeepCopy(ViewState)>>
    /\ historyIndex = 0
    /\ linkingFromId = Null
    /\ detachedEls = {}
    /\ now = 0
    /\ lastOp = Op("load", Null, Null)
    /\ viewport = DefaultView
    /\ file = NoFile

\* A gesture's end: updateTransform(), and no saveState().
Gesture(d, op) ==
    /\ state' = d.st
    /\ viewport' = d.vp
    /\ lastOp' = op
    /\ UNCHANGED <<history, historyIndex, linkingFromId, detachedEls, now, file>>

\* mousemove or touchmove while panning, or the wheel: the pointer decides
\* the new pan.
panTo(x, y) == Gesture(setPan(Doc(state, viewport), x, y), Op("pan", x, y))

\* zoom(delta, center): the center decides the new pan.
zoom(delta, x, y) ==
    LET scaled == IF delta < 0
                  THEN (viewport.scale * 11) \div 10
                  ELSE (viewport.scale * 10) \div 11
        clamped == IF scaled < 10 THEN 10 ELSE IF scaled > 500 THEN 500 ELSE scaled
        d == Doc(state, [viewport EXCEPT !.scale = clamped])
    IN  Gesture(setPan(d, x, y), Op("zoom", delta, Null))

\* Ctrl+0: scale = 1; pan = { x: 0, y: 0 }.
resetView == Gesture(Unshare(Doc(state, DefaultView)), Op("resetView", Null, Null))

NextView ==
    \/ \E p \in PanValues : panTo(p[1], p[2])
    \/ viewport.scale < MaxScale /\ \E p \in PanValues : zoom(-1, p[1], p[2])
    \/ viewport.scale > DefaultScale /\ \E p \in PanValues : zoom(1, p[1], p[2])
    \/ resetView
    \/ \E direction \in {"next", "prev"} : switchCanvas(direction)
    \/ Len(state.canvases) < MaxCanvases /\ \E t \in Ids : addCanvas(t)
    \/ deleteCanvas

SpecView == InitView /\ [][NextView]_vars

----------------------------------------------------------------------------
\* The sync button, on the documents the program writes: canvases with a
\* lastModified each (saveState stamps the current canvas), and no
\* lastModified on the document itself.  A stamp is the clock reading of its
\* toISOString().  The handler's awaits are taken in one step.

\* new Date(undefined) is an invalid date: its time value is NaN, and every
\* comparison with it is false.
InvalidDate == -1

\* new Date(state.lastModified)
localDate(doc) ==
    IF "lastModified" \in DOMAIN doc THEN doc.lastModified ELSE InvalidDate

\* new Date(fileData.lastModified || 0)
fileDate(doc) ==
    IF "lastModified" \in DOMAIN doc /\ doc.lastModified # 0
    THEN doc.lastModified ELSE 0

\* a > b on two Date objects.
After(a, b) == a # InvalidDate /\ b # InvalidDate /\ a > b

SyncCanvases ==
    {[id |-> 0, title |-> DefaultTitle, nodes |-> ns, lastModified |-> m] :
        ns \in {<<>>, <<NewNode(1, <<>>)>>}, m \in 1..MaxStamp}

SyncDocs ==
    {[canvases |-> <<c>>, currentCanvasId |-> 0] : c \in SyncCanvases}
        \cup {[canvases |-> <<c, [d EXCEPT !.id = 1]>>, currentCanvasId |-> cur] :
                 c \in SyncCanvases, d \in SyncCanvases, cur \in {0, 1}}

InitSync ==
    \E doc \in SyncDocs :
        /\ state = renderNodes(doc, {}).st
        /\ history = <<doc>>
        /\ historyIndex = 0
        /\ linkingFromId = Null
        /\ detachedEls = {}
        /\ now = MaxStamp
        /\ lastOp = Op("load", Null, Null)
        /\ viewport = DefaultView
        /\ file \in {NoFile} \cup {[handle |-> TRUE, data |-> d] :
                                     d \in SyncDocs \cup {Unparsed}}

\* saveState's currentCanvas.lastModified = new Date().toISOString()
stamp(st, t) == [st EXCEPT !.canvases[CurIdx(st)].lastModified = t]

\* sync-button click at the clock reading t; a file picker is accepted.
sync(t) ==
    LET connected == IF file.handle THEN file
                     ELSE [handle |-> TRUE, data |-> DeepCopy(state)]
        fileData == connected.data
        localLastModified == localDate(state)
        fileLastModified == fileDate(fileData)
        loaded == stamp(fileData, t)
    IN  /\ t \in Readings
        /\ now' = t
        /\ lastOp' = Op("sync", Null, Null)
        /\ viewport' = viewport
        /\ linkingFromId' = linkingFromId
        /\ IF After(fileLastModified, localLastModified)
           THEN LET r == renderNodes(loaded, detachedEls \cup
                                     Unbound(state, BoundAt(state)))
                    h == pushHistory(history, historyIndex, loaded)
                IN  /\ state' = r.st
                    /\ detachedEls' = r.dt
                    /\ history' = h.history
                    /\ historyIndex' = h.historyIndex
                    /\ file' = connected
           ELSE /\ UNCHANGED <<state, detachedEls, history, historyIndex>>
                /\ file' = IF After(localLastModified, fileLastModified)
                           THEN [handle |-> TRUE, data |-> DeepCopy(state)]
                           ELSE connected

NextSync == \E t \in {MaxStamp, MaxStamp + 1} : sync(t)

SpecSync == InitSync /\ [][NextSync]_vars

----------------------------------------------------------------------------
\* Properties of the node graph.

Pre == CurNodes(state)

Post == CurNodes(state')

\* The snapshot from which the handler that ended last started, when that
\* handler pushed `pushes` snapshots.
Before(pushes) == CurNodes(history[historyIndex + 1 - pushes])

AllParentsPresent(nodes) ==
    \A i \in DOMAIN nodes : ToSet(nodes[i].parentIds) \subseteq NodeIds(nodes)

\* C1: in every reachable state every id in a node's parentIds is the id of a
\* node of the same canvas.
ParentsExist ==
    \A c \in DOMAIN state.canvases : AllParentsPresent(state.canvases[c].nodes)

\* C2: in every reachable state no node's parentIds contains the node's own id.
NoSelfParent ==
    \A c \in DOMAIN state.canvases : \A i \in DOMAIN state.canvases[c].nodes :
        ~Includes(state.canvases[c].nodes[i].parentIds, state.canvases[c].nodes[i].id)

Acyclic(nodes) == \A m \in NodeIds(nodes) : m \notin Descendants(nodes, m)

\* C3: completeLink never adds an edge that makes a node an ancestor of
\* itself: a loop-free graph is loop-free after it.
LinkKeepsAcyclic ==
    [][(lastOp'.op = "completeLink" /\ Acyclic(Pre)) => Acyclic(Post)]_vars

\* C4: after deleteNode no surviving node's parentIds contains the id of a
\* node the call removed.
DeletedParentsDropped ==
    [][lastOp'.op = "deleteNode" =>
        \A i \in DOMAIN Post :
            ToSet(Post[i].parentIds) \cap (NodeIds(Pre) \ NodeIds(Post)) = {}]_vars

\* A node with two parents, one of them the deleted node, survived with the
\* other parent only.
DeletedParentsDroppedWitness ==
    /\ lastOp.op = "deleteNode"
    /\ historyIndex >= 2
    /\ lastOp.a \notin NodeIds(CurNodes(state))
    /\ \E i \in DOMAIN Before(2), j \in DOMAIN CurNodes(state) :
           /\ Before(2)[i].id = CurNodes(state)[j].id
           /\ Len(Before(2)[i].parentIds) = 2
           /\ Includes(Before(2)[i].parentIds, lastOp.a)
           /\ Len(CurNodes(state)[j].parentIds) = 1
           /\ CurNodes(state)[j].parentIds[1] \in NodeIds(CurNodes(state))

\* C5: deleteNode(n) removes no node other than n whose parentIds was empty
\* before the call.
RootsSurviveDelete ==
    [][lastOp'.op = "deleteNode" =>
        \A i \in DOMAIN Pre :
            (i # FindIndex(Pre, lastOp'.a) /\ Len(Pre[i].parentIds) = 0)
                => \E j \in DOMAIN Post : Post[j].id = Pre[i].id]_vars

\* The least set D of nodes (indices) with k in D and every node with
\* non-empty parentIds all of whose parents are nodes of D in D.
RECURSIVE LeastClosed(_, _)
LeastClosed(nodes, D) ==
    LET InD(pid) == /\ \E j \in D : nodes[j].id = pid
                    /\ \A j \in DOMAIN nodes : nodes[j].id = pid => j \in D
        add == {i \in DOMAIN nodes \ D :
                   /\ Len(nodes[i].parentIds) > 0
                   /\ \A k \in DOMAIN nodes[i].parentIds : InD(nodes[i].parentIds[k])}
    IN  IF add = {} THEN D ELSE LeastClosed(nodes, D \cup add)

\* The nodes outside D in their order, from index i on, as <<id, parentIds>>,
\* without the parents that are nodes of D.
RECURSIVE Survivors(_, _, _)
Survivors(nodes, D, i) ==
    IF i > Len(nodes) THEN <<>>
    ELSE IF i \in D THEN Survivors(nodes, D, i + 1)
    ELSE <<<<nodes[i].id,
             SelectSeq(nodes[i].parentIds,
                       LAMBDA pid : \A j \in D : nodes[j].id # pid)>>>>
         \o Survivors(nodes, D, i + 1)

Shape(nodes) == [i \in DOMAIN nodes |-> <<nodes[i].id, nodes[i].parentIds>>]

\* C6: deleteNode(n) removes exactly the least closed set of n, and a survivor
\* only loses its deleted parents.
DeleteRemovesLeastSet ==
    [][(lastOp'.op = "deleteNode" /\ HasNode(Pre, lastOp'.a)) =>
        Shape(Post) =
            Survivors(Pre, LeastClosed(Pre, {FindIndex(Pre, lastOp'.a)}), 1)]_vars

\* The parentIds cleanupNode(n) is to give a child: the old ones without n,
\* then the ids of n's parents (nodes of the canvas, in their order) that are
\* not there yet.
RECURSIVE Adopted(_, _, _, _)
Adopted(pids, nodes, npids, i) ==
    IF i > Len(nodes) THEN pids
    ELSE Adopted(IF Includes(npids, nodes[i].id) /\ ~Includes(pids, nodes[i].id)
                 THEN Append(pids, nodes[i].id) ELSE pids,
                 nodes, npids, i + 1)

\* C7: cleanupNode(n) removes n and no other node, gives every child of n the
\* parents of n after its own remaining ones, without duplicates, and leaves
\* the parentIds of every other node unchanged.
CleanupReconnects ==
    [][(lastOp'.op = "cleanupNode" /\ HasNode(Pre, lastOp'.a)) =>
        LET n == lastOp'.a
            k == FindIndex(Pre, n)
        IN  /\ Len(Post) = Len(Pre) - 1
            /\ \A i \in DOMAIN Pre \ {k} :
                   LET c == Pre[i]
                       d == Post[IF i < k THEN i ELSE i - 1]
                   IN  /\ d.id = c.id
                       /\ d.parentIds =
                              IF Includes(c.parentIds, n)
                              THEN Adopted(SelectSeq(c.parentIds, LAMBDA x : x # n),
                                           Pre, Pre[k].parentIds, 1)
                              ELSE c.parentIds
                       /\ \A a \in DOMAIN d.parentIds, b \in DOMAIN d.parentIds :
                              (a # b /\ d.parentIds[a] = d.parentIds[b])
                                  => \E x \in DOMAIN c.parentIds, y \in DOMAIN c.parentIds :
                                         x # y /\ c.parentIds[x] = c.parentIds[y]]_vars

\* A child of the cleaned-up node that kept a parent of its own and received a
\* parent of the node.
CleanupReconnectsWitness ==
    /\ lastOp.op = "cleanupNode"
    /\ historyIndex >= 1
    /\ lastOp.a \notin NodeIds(CurNodes(state))
    /\ \E i \in DOMAIN Before(1), j \in DOMAIN CurNodes(state) :
           /\ Before(1)[i].id = CurNodes(state)[j].id
           /\ Includes(Before(1)[i].parentIds, lastOp.a)
           /\ Len(Before(1)[i].parentIds) = 2
           /\ Len(CurNodes(state)[j].parentIds) = 2
           /\ CurNodes(state)[j].parentIds[1] = Before(1)[i].parentIds[1]
           /\ ~Includes(Before(1)[i].parentIds, CurNodes(state)[j].parentIds[2])

----------------------------------------------------------------------------
\* Properties of the history.

\* The state a redo(), or an undo(), issued in the state st with the history
\* hist at idx leaves.
RedoResult(hist, idx, st) ==
    IF idx < Len(hist) - 1 THEN restore(hist, idx + 1) ELSE st

UndoResult(hist, idx, st) ==
    IF idx > 0 THEN restore(hist, idx - 1) ELSE st

\* C8: undo immediately followed by redo, and redo immediately followed by
\* undo, leave the state (canvases, nodes, titles, active canvas) as it was
\* before the pair.
UndoRedoIdentity ==
    [][/\ lastOp'.op = "undo" =>
            DeepCopy(RedoResult(history', historyIndex', state')) = DeepCopy(state)
       /\ lastOp'.op = "redo" =>
            DeepCopy(UndoResult(history', historyIndex', state')) = DeepCopy(state)]_vars

\* A step of a handler that pushed at least one snapshot.
Pushes ==
    /\ lastOp'.op \notin {"undo", "redo", "switchCanvas", "addCanvas", "deleteCanvas"}
    /\ historyIndex' # historyIndex \/ history' # history

\* C9: the history holds between 1 and 50 snapshots with historyIndex inside
\* it, and a push onto a full stack drops the oldest snapshot and leaves
\* historyIndex on the pushed one.
HistoryBounded ==
    /\ [](/\ 1 <= Len(history) /\ Len(history) <= HistoryCap
          /\ 0 <= historyIndex /\ historyIndex <= Len(history) - 1)
    /\ [][(Pushes /\ Len(history) = HistoryCap /\ historyIndex = HistoryCap - 1)
            => /\ history' = Append(Tail(history), DeepCopy(state'))
               /\ historyIndex' = HistoryCap - 1]_vars

\* A full stack that has lost the snapshot of the initial load.
HistoryBoundedWitness ==
    /\ Len(history) = HistoryCap
    /\ historyIndex = HistoryCap - 1
    /\ lastOp.op = "autoLayout"
    /\ Len(CurNodes(history[1])) # 0

\* C10: a push made below the tip keeps the snapshots up to the old
\* historyIndex, discards the later ones and ends on the new snapshot, so that
\* a redo changes nothing.
FutureDiscarded ==
    [][(Pushes /\ historyIndex < Len(history) - 1) =>
        /\ Len(history') \in {historyIndex + 2, historyIndex + 3}
        /\ SubSeq(history', 1, historyIndex + 1) = SubSeq(history, 1, historyIndex + 1)
        /\ history'[Len(history')] = DeepCopy(state')
        /\ historyIndex' = Len(history') - 1
        /\ RedoResult(history', historyIndex', state') = state']_vars

\* The first root is created at reading 1: a history of the load and of a
\* root created at reading 2 has lost the snapshots of the first root.
FutureDiscardedWitness ==
    /\ lastOp.op = "createRoot"
    /\ Len(history) = 2
    /\ historyIndex = 1
    /\ Len(CurNodes(state)) = 1
    /\ CurNodes(state)[1].id = 2

\* C11: undo and redo never add, remove or alter a history snapshot: history
\* is the same before and after either of them, and only historyIndex and
\* the live state change.  undo at historyIndex 0 and redo at the last index
\* change nothing at all.
AtHistoryEnd ==
    \/ lastOp'.op = "undo" /\ historyIndex = 0
    \/ lastOp'.op = "redo" /\ historyIndex = Len(history) - 1

UndoRedoKeepHistory ==
    [][lastOp'.op \in {"undo", "redo"} =>
          /\ history' = history
          /\ linkingFromId' = linkingFromId
          /\ now' = now
          /\ AtHistoryEnd =>
                 UNCHANGED <<state, historyIndex, detachedEls>>]_vars

\* undo has stepped back from a snapshot that is still in the history.
UndoRedoKeepHistoryWitness ==
    /\ lastOp.op = "undo"
    /\ historyIndex < Len(history) - 1
    /\ CurNodes(history[historyIndex + 2]) # CurNodes(state)

\* C12: immediately after switchCanvas, addCanvas or a confirmed
\* deleteCanvas the history holds exactly one snapshot, taken with the new
\* active canvas selected, and historyIndex is 0.
CanvasChanged ==
    \/ lastOp'.op \in {"switchCanvas", "addCanvas"}
    \/ lastOp'.op = "deleteCanvas" /\ Len(state.canvases) > 1

CanvasChangeResetsHistory ==
    [][CanvasChanged =>
          /\ historyIndex' = 0
          /\ history' = <<DeepCopy(state')>>]_vars

\* The canvas was changed with nodes on a canvas, which took snapshots.
CanvasChangeResetsHistoryWitness ==
    /\ lastOp.op \in {"switchCanvas", "addCanvas", "deleteCanvas"}
    /\ TotalNodes(state) > 0
    /\ Len(state.canvases) > 1
    /\ Len(history) = 1

\* C13: in every reachable state there is at least one canvas and
\* currentCanvasId is the id of a canvas of the collection; deleteCanvas
\* invoked while only one canvas exists leaves the canvases, currentCanvasId,
\* the nodes and the history unchanged.
CurrentCanvasExists ==
    /\ Len(state.canvases) >= 1
    /\ \E i \in DOMAIN state.canvases :
           state.canvases[i].id = state.currentCanvasId

LastCanvasStays ==
    /\ []CurrentCanvasExists
    /\ [][lastOp'.op = "deleteCanvas" /\ Len(state.canvases) = 1 =>
             UNCHANGED <<state, history, historyIndex>>]_vars

\* deleteCanvas was invoked on the only canvas, which holds nodes and has a
\* history of more than one snapshot.
LastCanvasStaysWitness ==
    /\ lastOp.op = "deleteCanvas"
    /\ Len(state.canvases) = 1
    /\ Len(CurNodes(state)) > 0
    /\ Len(history) > 1

\* C14: completeLink(p, c) with p = c, or with p already in c.parentIds,
\* leaves every node's parentIds unchanged and pushes no history snapshot
\* (the nodes, and with them their positions, stay as they were).
LinkRejected ==
    /\ lastOp'.op = "completeLink"
    /\ HasNode(Pre, lastOp'.b)
    /\ \/ lastOp'.a = lastOp'.b
       \/ Includes(Pre[FindIndex(Pre, lastOp'.b)].parentIds, lastOp'.a)

RejectedLinkChangesNothing ==
    [][LinkRejected =>
          /\ DeepCopy(state') = DeepCopy(state)
          /\ history' = history
          /\ historyIndex' = historyIndex]_vars

\* completeLink was called for a parent the child already lists, and the
\* history still holds the one snapshot it held before.
RejectedLinkChangesNothingWitness ==
    /\ lastOp.op = "completeLink"
    /\ lastOp.a # lastOp.b
    /\ HasNode(CurNodes(state), lastOp.b)
    /\ Includes(CurNodes(state)[FindIndex(CurNodes(state), lastOp.b)].parentIds,
                lastOp.a)
    /\ Len(history) = 1

\* C15: deleteNode, cleanupNode, detachNode and completeLink, when an id
\* they are given (the node, the child or the parent) is the id of no node of
\* the active canvas, return without changing a node's parentIds, the node
\* collection or the history.
GivenIdAbsent ==
    \/ /\ lastOp'.op \in {"deleteNode", "cleanupNode"}
       /\ ~HasNode(Pre, lastOp'.a)
    \/ /\ lastOp'.op \in {"detachNode", "completeLink"}
       /\ ~HasNode(Pre, lastOp'.a) \/ ~HasNode(Pre, lastOp'.b)

AbsentIdChangesNothing ==
    [][GivenIdAbsent =>
          /\ DeepCopy(state') = DeepCopy(state)
          /\ history' = history
          /\ historyIndex' = historyIndex]_vars

\* C16: detachNode(p, c) removes p from c.parentIds and nothing else: the
\* node of the detached connection (id c, p among its parentIds) loses p, its
\* other parentIds keep their order, every other node is as it was, and the
\* node collection is unchanged; a node left without parents stays.
Without(parentIds, p) == SelectSeq(parentIds, LAMBDA id : id # p)

DetachedAt(k, p, c) ==
    /\ Pre[k].id = c
    /\ Includes(Pre[k].parentIds, p)
    /\ Post[k] = [Pre[k] EXCEPT !.parentIds = Without(@, p)]
    /\ \A i \in DOMAIN Pre : i # k => Post[i] = Pre[i]

DetachRemovesOneEdge ==
    [][lastOp'.op = "detachNode" =>
          /\ DOMAIN Post = DOMAIN Pre
          /\ \E k \in DOMAIN Pre : DetachedAt(k, lastOp'.a, lastOp'.b)]_vars

\* C17: in every reachable state no node's parentIds contains the same id
\* twice.
NoRepeat(parentIds) ==
    \A i \in DOMAIN parentIds, j \in DOMAIN parentIds :
        parentIds[i] = parentIds[j] => i = j

NoDuplicateParents ==
    \A c \in DOMAIN state.canvases :
        \A i \in DOMAIN state.canvases[c].nodes :
            NoRepeat(state.canvases[c].nodes[i].parentIds)

\* A link was asked for a second time, after another handler had run on the
\* linked nodes.
NoDuplicateParentsWitness ==
    /\ lastOp.op = "completeLink"
    /\ historyIndex = 0
    /\ \E i \in DOMAIN CurNodes(state) :
           /\ CurNodes(state)[i].id = lastOp.b
           /\ Includes(CurNodes(state)[i].parentIds, lastOp.a)

\* C18: a node's resolved flag changes from false to true only while the
\* node is a leaf (no node of the canvas has it in parentIds); the resolve
\* toggle on a node that has children leaves its resolved flag false.
BecomesResolved(i) ==
    /\ i \in DOMAIN Post
    /\ Post[i].id = Pre[i].id
    /\ ~Pre[i].resolved
    /\ Post[i].resolved

ResolveOnlyLeaves ==
    [][lastOp'.op = "resolve" =>
          \A i \in DOMAIN Pre :
              BecomesResolved(i) => ChildIdx(Pre, Pre[i].id) = {}]_vars

\* C19: cleanupNode is only ever applied, through the resolve button, to a node
\* whose resolved flag is true in the active canvas's state at that moment,
\* also after undo or redo has replaced the state the node's element was
\* created from.
CleanupOnlyResolved ==
    [][lastOp'.op = "cleanupNode" /\ HasNode(Pre, lastOp'.a) =>
          Pre[FindIndex(Pre, lastOp'.a)].resolved]_vars

\* C20: every traversal of the node graph terminates without error on every
\* reachable graph, also on graphs in which completeLink made a descendant
\* the parent of its ancestor: no handler ends with the RangeError of an
\* exhausted call stack.
TraversalsReturn == lastOp.op # "RangeError"

\* C21: one call moveSubtree(n, dx, dy) adds (dx, dy) exactly once to the
\* position of n and of every node reachable from n through child edges, and
\* leaves every other node's position unchanged, also when a node is
\* reachable over several paths or the graph has a cycle.
RECURSIVE ReachIdx(_, _)
ReachIdx(nodes, seen) ==
    LET next == {j \in DOMAIN nodes :
                    \E i \in seen : Includes(nodes[j].parentIds, nodes[i].id)}
    IN  IF next \subseteq seen THEN seen ELSE ReachIdx(nodes, seen \cup next)

Subtree(nodes, n) ==
    IF HasNode(nodes, n) THEN ReachIdx(nodes, {FindIndex(nodes, n)}) ELSE {}

Translated(nodes, S, dx, dy) ==
    [i \in DOMAIN nodes |->
        IF i \in S THEN [nodes[i] EXCEPT !.x = @ + dx, !.y = @ + dy]
        ELSE nodes[i]]

MoveSubtreeOnce ==
    [][lastOp'.op = "moveSubtree" =>
          Post = Translated(Pre, Subtree(Pre, lastOp'.a),
                            lastOp'.b[1], lastOp'.b[2])]_vars

\* C22: addChildNode on a parent with empty parentIds inserts exactly one new
\* node with parentIds = [parent id] and a color taken from the palette, and
\* leaves the parent's own color and every other node's color and parentIds
\* unchanged.
ParentView == ElData(state, detachedEls, lastOp'.a)

NewChild == Post[Len(Post)]

ChildOfRoot ==
    [][lastOp'.op = "addChildNode" /\ ParentView.isRoot =>
          /\ Len(Post) = Len(Pre) + 1
          /\ NewChild.parentIds = <<lastOp'.a>>
          /\ NewChild.color \in Palette
          /\ \A i \in DOMAIN Pre :
                 /\ Post[i].color = Pre[i].color
                 /\ Post[i].parentIds = Pre[i].parentIds
                 /\ Post[i].id = Pre[i].id]_vars

\* A child was added to a colored root that has a child of another color.
ChildOfRootWitness ==
    /\ lastOp.op = "addChildNode"
    /\ \E i \in DOMAIN CurNodes(state), j \in DOMAIN CurNodes(state) :
           /\ CurNodes(state)[i].id = lastOp.a
           /\ CurNodes(state)[i].parentIds = <<>>
           /\ CurNodes(state)[i].color # NoColor
           /\ j < Len(CurNodes(state))
           /\ CurNodes(state)[j].parentIds = <<lastOp.a>>
           /\ CurNodes(state)[j].color # CurNodes(state)[Len(CurNodes(state))].color

\* C23: addChildNode on a non-root parent that already has two or more
\* children leaves the parent, every descendant of the parent (at any depth)
\* and the new child with one and the same color, on any acyclic graph.
DenseParent ==
    /\ lastOp'.op = "addChildNode"
    /\ ~ParentView.isRoot
    /\ Cardinality(ChildIdx(Pre, lastOp'.a)) >= 2
    /\ Acyclic(Pre)

\* The node of the element with the id, and every node that lists it or one
\* of its descendants as a parent.
Branch(nodes, id) ==
    {i \in DOMAIN nodes :
        \/ i = FindIndex(nodes, id)
        \/ \E p \in ToSet(nodes[i].parentIds) :
               p \in {id} \cup Descendants(nodes, id)}

SparseParent ==
    /\ lastOp'.op = "addChildNode"
    /\ ~ParentView.isRoot
    /\ Cardinality(ChildIdx(Pre, lastOp'.a)) < 2

SparseParentColors ==
    [][SparseParent =>
          IF ParentView.color = NoColor
          THEN /\ NewChild.color \in Palette
               /\ \A i \in DOMAIN Post :
                      \/ Post[i].id = lastOp'.a
                      \/ Includes(Post[i].parentIds, lastOp'.a)
                      => Post[i].color = NewChild.color
          ELSE /\ NewChild.color = ParentView.color
               /\ \A i \in DOMAIN Pre : Post[i].color = Pre[i].color]_vars

\* C25: when two children are added one after the other to the same root,
\* the second child's color differs from the first child's color.
SecondChildOfRoot ==
    /\ lastOp.op = "addChildNode"
    /\ lastOp'.op = "addChildNode"
    /\ lastOp'.a = lastOp.a
    /\ ParentView.isRoot
    /\ Len(Post) = Len(Pre) + 1
    /\ Pre[Len(Pre)].parentIds = <<lastOp.a>>

SiblingColorsDiffer ==
    [][SecondChildOfRoot => NewChild.color # Pre[Len(Pre)].color]_vars

\* C26: every structural mutation (create root, addChildNode, completeLink,
\* detachNode, deleteNode, cleanupNode, resolve toggle, recolor) is followed
\* by a history snapshot of its result: when the operation returns, the node
\* collections in the snapshot at historyIndex equal those of the live
\* state, also when the operation removes the last node of the canvas.
Mutations ==
    {"createRoot", "addChildNode", "completeLink", "detachNode", "deleteNode",
     "cleanupNode", "resolve", "updateBranchColor"}

Mutated == lastOp'.op \in Mutations /\ DeepCopy(state') # DeepCopy(state)

MutationsSnapshotted ==
    [][Mutated => history'[historyIndex' + 1] = DeepCopy(state')]_vars

\* C27: for each structural mutation the history snapshot is taken once,
\* after the mutation and its layout propagation: deleteNode, cleanupNode,
\* addChildNode and completeLink each append exactly one snapshot, so a
\* single undo after the operation restores the node graph that existed
\* before it.
Restructured ==
    /\ lastOp'.op \in {"deleteNode", "cleanupNode", "addChildNode", "completeLink"}
    /\ DeepCopy(state') # DeepCopy(state)

OneSnapshotPerMutation ==
    [][Restructured =>
          /\ historyIndex' = historyIndex + 1
          /\ Len(history') = historyIndex' + 1
          /\ history'[historyIndex'] = DeepCopy(state)]_vars

\* C28: switchCanvas stores the current pan and scale into the outgoing
\* canvas and loads the pan and scale stored in the incoming canvas; the
\* stored viewport of every other canvas stays as it was, through the switch
\* and through the gestures made on the active canvas, so that switching away
\* from a canvas and back restores the viewport it had when it was left.
ViewOf(c) == <<c.pan.x, c.pan.y, c.scale>>

Shown(vp) == <<vp.pan.x, vp.pan.y, vp.scale>>

SwitchStoresAndLoads ==
    LET out == CurIdx(state)
        inc == CurIdx(state')
    IN  /\ ViewOf(state'.canvases[out]) = Shown(viewport)
        /\ Shown(viewport') = IF inc = out THEN Shown(viewport)
                              ELSE ViewOf(state.canvases[inc])
        /\ \A c \in DOMAIN state.canvases \ {out} :
              ViewOf(state'.canvases[c]) = ViewOf(state.canvases[c])

OthersKeepViews ==
    \A c \in DOMAIN state.canvases \ {CurIdx(state)} :
        ViewOf(state'.canvases[c]) = ViewOf(state.canvases[c])

SwitchRestoresViewport ==
    [][/\ lastOp'.op = "switchCanvas" => SwitchStoresAndLoads
       /\ lastOp'.op \in {"pan", "zoom", "resetView"} => OthersKeepViews]_vars

\* C29: on a sync of two documents of the multi-canvas shape, when the
\* external document is newer than the in-memory state (each of its canvases
\* was modified after every canvas of the state) the state becomes the
\* external document in full, and when the in-memory state is newer the
\* external document becomes the in-memory state in full.
Stamps(doc) == {doc.canvases[c].lastModified : c \in DOMAIN doc.canvases}

Newer(a, b) == \A m \in Stamps(a), k \in Stamps(b) : m > k

\* A document without its stamps and element bindings.
Content(doc) ==
    [canvases |-> [c \in DOMAIN doc.canvases |->
                      [id |-> doc.canvases[c].id,
                       title |-> doc.canvases[c].title,
                       nodes |-> CopyNodes(doc.canvases[c].nodes)]],
     currentCanvasId |-> doc.currentCanvasId]

SyncNewerWins ==
    [][(lastOp'.op = "sync" /\ file.handle /\ file.data # Unparsed) =>
          /\ Newer(file.data, state) => Content(state') = Content(file.data)
          /\ Newer(state, file.data) => file'.data = DeepCopy(state)]_vars

\* C30: in every reachable state the nodes of a canvas have pairwise
\* distinct ids, also when two nodes were created at the same clock reading.
UniqueNodeIds ==
    \A c \in DOMAIN state.canvases :
        \A i, j \in DOMAIN state.canvases[c].nodes :
            i # j => state.canvases[c].nodes[i].id # state.canvases[c].nodes[j].id

Structure(nodes) ==
    [i \in DOMAIN nodes |-> <<nodes[i].id, nodes[i].parentIds>>]

FirstParent(nodes, i) ==
    IF nodes[i].parentIds = <<>> THEN 0
    ELSE FindIndex(nodes, nodes[i].parentIds[1])

ClimbsFirstParents(nodes, start, calls) ==
    /\ Len(calls) <= 20
    /\ \A k \in DOMAIN calls :
          /\ calls[k].passes <= 5
          /\ calls[k].node = IF k = 1 THEN FindIndex(nodes, start)
                             ELSE FirstParent(nodes, calls[k - 1].node)
    /\ IF calls = <<>> THEN ~HasNode(nodes, start)
       ELSE Len(calls) = 20 \/ FirstParent(nodes, calls[Len(calls)].node) = 0

LayoutBounded ==
    [][lastOp'.op = "propagate" =>
          /\ ClimbsFirstParents(Pre, lastOp'.a, lastOp'.b)
          /\ Structure(Post) = Structure(Pre)]_vars

\* A propagation on a cyclic graph ended at its 20th call, each call ended
\* at its 5th pass, and nodes were moved.
LayoutBoundedWitness ==
    /\ lastOp.op = "propagate"
    /\ Len(lastOp.b) = 20
    /\ \A k \in DOMAIN lastOp.b : lastOp.b[k].passes = 5
    /\ ~Acyclic(CurNodes(state))
    /\ \E i \in DOMAIN CurNodes(state) : CurNodes(state)[i].x # 10 * i

\* C33: findSmartPosition returns a position after testing at most 200
\* candidates: the first candidate in search order whose padded box overlaps
\* the box of no node, or, when all 200 candidates collide, the fallback
\* (parent.x + 50, parent.y + 50); it modifies no node.
Apart(a, b, size) == a - b >= size \/ b - a >= size

Free(c, nodes) ==
    \A i \in DOMAIN nodes :
        \/ Apart(c.x, nodes[i].x * 1000, 600 * 1000)
        \/ Apart(c.y, nodes[i].y * 1000, 200 * 1000)

Placed == lastOp.b

FirstFreeOrFallback(nodes, parent, r) ==
    /\ Len(r.tested) <= 200
    /\ \A k \in DOMAIN r.tested :
          Free(r.tested[k], nodes) <=>
              /\ k = Len(r.tested)
              /\ r.x = r.tested[k].x
              /\ r.y = r.tested[k].y
    /\ \/ r.tested # <<>> /\ Free(r.tested[Len(r.tested)], nodes)
       \/ /\ Len(r.tested) = 200
          /\ r.x = (parent.x + 50) * 1000
          /\ r.y = (parent.y + 50) * 1000

SmartPositionFound ==
    [][lastOp'.op = "findSmartPosition" =>
          /\ FirstFreeOrFallback(Pre, Pre[FindIndex(Pre, lastOp'.a)], lastOp'.b)
          /\ Post = Pre]_vars

\* All 200 candidates of a node collided and the fallback was returned.
SmartPositionFoundWitness ==
    /\ lastOp.op = "findSmartPosition"
    /\ Len(Placed.tested) = 200
    /\ ~Free(Placed.tested[200], CurNodes(state))
    /\ Placed.x = (CurNodes(state)[1].x + 50) * 1000

\* C34: the candidate of step k (from 0) of findSmartPosition lies at
\* radius 650 + 100 * floor(k / 16): the radius grows after every 16
\* unsuccessful steps, first for step 16.
RadiusGrowsEvery16 ==
    [][lastOp'.op = "findSmartPosition" =>
          \A k \in DOMAIN lastOp'.b.tested :
              lastOp'.b.tested[k].radius = 650 + 100 * ((k - 1) \div 16)]_vars

\* C35: the node operations on the active canvas, undo and redo leave the
\* node collection of every non-active canvas as it was.
NodeOperations ==
    {"createRoot", "addChildNode", "RangeError", "completeLink", "detachNode",
     "deleteNode", "cleanupNode", "resolve", "clear", "autoLayout", "undo",
     "redo"}

OtherCanvasesKept ==
    [][lastOp'.op \in NodeOperations =>
          /\ Len(state'.canvases) = Len(state.canvases)
          /\ \A c \in DOMAIN state.canvases :
                c # CurIdx(state) =>
                    CopyNodes(state'.canvases[c].nodes)
                        = CopyNodes(state.canvases[c].nodes)]_vars

\* C36: after an undo with historyIndex > 0 and after a redo with
\* historyIndex < history.length - 1, the node collections and the titles of
\* all canvases of the live state equal those of the snapshot at the new
\* historyIndex.
Contents(st) ==
    [c \in DOMAIN st.canvases |->
        [title |-> st.canvases[c].title,
         nodes |-> CopyNodes(st.canvases[c].nodes)]]

RestoredEqualsSnapshot ==
    [][lastOp'.op \in {"undo", "redo"} /\ historyIndex' # historyIndex =>
          Contents(state') = Contents(history'[historyIndex' + 1])]_vars

\* An undo over several canvases went back to a snapshot with other nodes
\* than the one it left.
RestoredEqualsSnapshotWitness ==
    /\ lastOp.op = "undo"
    /\ historyIndex + 1 < Len(history)
    /\ Len(state.canvases) > 1
    /\ Contents(history[historyIndex + 1]) # Contents(history[historyIndex + 2])
    /\ Contents(state) = Contents(history[historyIndex + 1])

\* C37: in every reachable state each snapshot of the history stack has the
\* currentCanvasId of the live state and the same set of canvas ids;
\* undo and redo therefore never change the active canvas and never add or
\* remove a canvas.
CanvasIds(st) == {st.canvases[c].id : c \in DOMAIN st.canvases}

SnapshotsShareCanvases ==
    \A h \in DOMAIN history :
        /\ history[h].currentCanvasId = state.currentCanvasId
        /\ CanvasIds(history[h]) = CanvasIds(state)

\* An undo on a second canvas of two, with a later snapshot in the stack.
SnapshotsShareCanvasesWitness ==
    /\ lastOp.op = "undo"
    /\ historyIndex = 0
    /\ Len(history) = 2
    /\ Len(state.canvases) = 2
    /\ state.currentCanvasId # 0
    /\ Contents(history[1]) # Contents(history[2])

\* C38: a snapshot in the history stack is not altered by a later mutation
\* of the live state, nor by a mutation of the state that undo or redo
\* restored from it: as long as it is in the stack it is what was pushed.
\* (A canvas change empties the stack; a push drops the snapshots after
\* historyIndex, and the oldest one at the cap.)
CanvasChanges == {"switchCanvas", "addCanvas", "deleteCanvas"}

Shifted == Len(history) = HistoryCap /\ historyIndex = HistoryCap - 1

SnapshotsUnaltered ==
    [][lastOp'.op \notin CanvasChanges =>
          IF lastOp'.op \in {"undo", "redo"} \/ historyIndex' = historyIndex
          THEN history' = history \/ (Shifted /\ Tail(history) = SubSeq(history', 1, HistoryCap - 1))
          ELSE /\ historyIndex' > historyIndex
               /\ SubSeq(history', 1, historyIndex + 1)
                      = SubSeq(history, 1, historyIndex + 1)]_vars

\* A mutation after an undo: the live state differs from the snapshot it
\* was restored from, which is still in the stack below the new one.
SnapshotsUnalteredWitness ==
    /\ lastOp.op \in NodeOperations \ {"undo", "redo"}
    /\ historyIndex = 1
    /\ Len(history) = 2
    /\ Contents(history[1]) # Contents(state)
    /\ Contents(history[2]) = Contents(state)
    /\ CurNodes(history[1]) # <<>>

====
